---------------------------- MODULE Spec2Model ----------------------------
(***************************************************************************)
(* A model of the derived-metrics core of peerstocks:                      *)
(*   - eps_ttm_points              (src/backend/main.py)                   *)
(*   - prices_last_days_with_eps_pe (src/backend/main.py)                  *)
(*   - resolve_identifier_to_ticker (src/backend/main.py)                  *)
(*                                                                         *)
(* Numbers.  EPS values are Python floats.  They are modelled here as      *)
(* exact fixed-point integers counted in fifths of a cent (1 = 0.002,      *)
(* 5 = 0.01, 500 = 1.00).  round(x, 2) is then "nearest multiple of 5";    *)
(* no value of this grid lies halfway between two cents, so the tie rule   *)
(* of round() never comes into play.                                       *)
(* Dates are ISO strings in the program; they are modelled as day numbers, *)
(* whose order is the lexicographic order of the strings.                  *)
(* An optional value (Python None, or a key a dict does not have) is the   *)
(* empty sequence; a present value v is <<v>>.                             *)
(***************************************************************************)
EXTENDS Integers, Sequences, FiniteSets, TLC

VARIABLES
    \* eps_ttm_points
    hits,        \* the earnings_data hits of the query, sorted by end_date asc
    by_key,      \* (fiscal_year, fiscal_period) -> _source record
    quarters,    \* the quarterly stream
    window,      \* rolling window of EPS values
    total,       \* running total of the window
    out,         \* the TTM points emitted so far
    qi,          \* number of quarter points consumed by the rolling loop
    epc,         \* position in eps_ttm_points
    \* prices_last_days_with_eps_pe
    prices,      \* the price points, date ascending, annotated in place
    eps_points,  \* the TTM points of eps_ttm_points(ticker)
    p_idx,       \* the price cursor (1-based here, 0-based in the program)
    e_idx,       \* number of TTM points the for loop has taken
    attached,    \* history: per TTM point taken, the price index it wrote (0: none)
    apc,         \* position in prices_last_days_with_eps_pe
    \* resolve_identifier_to_ticker
    identifier,  \* the argument
    s,           \* identifier.strip()
    exact,       \* hits of the exact ticker query
    name_hits,   \* hits of the company name query
    queries,     \* history: the stock_metadata queries issued, in order
    result,      \* what the call ended with: a ticker or an HTTPException
    rpc,         \* position in resolve_identifier_to_ticker
    \* derive_sector_from_sic
    sic_code,    \* the argument: None or a string
    sic,         \* i, the value of _parse_sic(sic_code)
    sector,      \* the value returned
    spc,         \* position in derive_sector_from_sic
    \* find_price_years_ago
    price_data,  \* the argument: (date, close) pairs, date ascending
    years,       \* the argument: the window
    past,        \* how the call ended
    fpc,         \* position in find_price_years_ago
    \* find_revenue_growth_cagr
    earnings,    \* the argument: the earnings documents, latest filing first
    rev_years,   \* the argument: the window
    growth,      \* how the call ended
    gpc,         \* position in find_revenue_growth_cagr
    \* compute_financial_ratios
    latest_earnings, \* the argument: the _source of the latest earnings document
    latest_price,    \* the argument: the latest close, or None
    ratios,      \* how the call ended
    cpc,         \* position in compute_financial_ratios
    \* update
    tickers,     \* the argument: the tickers of the run
    sector_map,  \* fetch_sector_map(): ticker -> sector
    t_idx,       \* the position of the for loop in tickers (1-based)
    upd_prices,  \* prices, what fetch_prices(ticker) returned
    upd_earnings, \* earnings, what fetch_earnings(ticker) returned
    summary_doc, \* doc, the summary document of the current ticker
    indexed,     \* history: the tickers whose document the store took
    index_status, \* the status _index printed for the current ticker (0: none)
    upc,         \* position in update
    \* get_stock_data
    stock_docs,  \* docs, the earnings documents of the ticker, end_date ascending
    stock_quarters, \* quarters: (fiscal_year, fiscal_period) -> _source
    day_closes,  \* whether stock_prices holds closes around the period ends
    row_year,    \* year, the position of the loop over the years
    rows,        \* result, the quarterly rows
    year_base,   \* the calendar year before the first fiscal year of the documents
    gpc2,        \* position in get_stock_data
    \* polygon_get
    max_retries, \* max_retries
    replies,     \* what the provider answers to the 1st, 2nd, ... request
    attempt,     \* requests sent so far (the loop variable, plus one)
    last_resp,   \* resp, the last response; None while unbound
    pg_result,   \* how polygon_get ended
    ppc,         \* position in polygon_get
    \* ttm_pe_ratio
    pe_hits,     \* the earnings records of the ticker, end_date ascending
    pe_latest,   \* latest, the last stored close of the ticker
    pe_ratio,    \* doc["ttm_pe_ratio"], present or absent
    pe_points,   \* what eps_ttm_points returns for the same records
    tpc,         \* position
    \* get_price_trend_5y
    trend_prices, \* the closes stock_prices holds for the ticker, date ascending
    trend_today, \* datetime.today()
    trend,       \* how get_price_trend_5y ended
    hpc,         \* position
    \* runs of update over one store
    run_tickers, \* tickers, the list every run is given
    stock_prices, \* the index stock_prices: ticker -> (date, close) ascending
    earnings_data, \* the index earnings_data: ticker -> documents, latest first
    stock_summary, \* the index stock_summary: ticker -> SummaryDoc, if any
    run_no,      \* which run this is
    run_day,     \* datetime.today() of the run
    run_idx,     \* the position of the run in its list
    sent,        \* per run and ticker: the document sent to the index and the status printed
    xpc          \* position in the run

epsVars == <<hits, by_key, quarters, window, total, out, qi, epc>>
alignVars == <<prices, eps_points, p_idx, e_idx, attached, apc>>
resolveVars == <<identifier, s, exact, name_hits, queries, result, rpc>>
sectorVars == <<sic_code, sic, sector, spc>>
lookbackVars == <<price_data, years, past, fpc>>
revenueVars == <<earnings, rev_years, growth, gpc>>
ratiosVars == <<latest_earnings, latest_price, ratios, cpc>>
updateVars == <<tickers, sector_map, t_idx, upd_prices, upd_earnings, summary_doc, indexed, index_status, upc>>
rowsVars == <<stock_docs, stock_quarters, day_closes, row_year, rows, year_base, gpc2>>
polygonVars == <<max_retries, replies, attempt, last_resp, pg_result, ppc>>
ttmPeVars == <<pe_hits, pe_latest, pe_ratio, pe_points, tpc>>
trendVars == <<trend_prices, trend_today, trend, hpc>>
rerunVars == <<run_tickers, stock_prices, earnings_data, stock_summary, run_no, run_day, run_idx, sent, xpc>>
vars == <<epsVars, alignVars, resolveVars, sectorVars, lookbackVars, revenueVars, ratiosVars, updateVars, rowsVars, polygonVars, ttmPeVars, trendVars, rerunVars>>

\* What each function leaves alone: the state of the other functions.
notEps == <<alignVars, resolveVars, sectorVars, lookbackVars, revenueVars, ratiosVars, updateVars, rowsVars, polygonVars, ttmPeVars, trendVars, rerunVars>>
notAlign == <<epsVars, resolveVars, sectorVars, lookbackVars, revenueVars, ratiosVars, updateVars, rowsVars, polygonVars, ttmPeVars, trendVars, rerunVars>>
notResolve == <<epsVars, alignVars, sectorVars, lookbackVars, revenueVars, ratiosVars, updateVars, rowsVars, polygonVars, ttmPeVars, trendVars, rerunVars>>
notSector == <<epsVars, alignVars, resolveVars, lookbackVars, revenueVars, ratiosVars, updateVars, rowsVars, polygonVars, ttmPeVars, trendVars, rerunVars>>
notLookback == <<epsVars, alignVars, resolveVars, sectorVars, revenueVars, ratiosVars, updateVars, rowsVars, polygonVars, ttmPeVars, trendVars, rerunVars>>
notRevenue == <<epsVars, alignVars, resolveVars, sectorVars, lookbackVars, ratiosVars, updateVars, rowsVars, polygonVars, ttmPeVars, trendVars, rerunVars>>
notRatios == <<epsVars, alignVars, resolveVars, sectorVars, lookbackVars, revenueVars, updateVars, rowsVars, polygonVars, ttmPeVars, trendVars, rerunVars>>
notUpdate == <<epsVars, alignVars, resolveVars, sectorVars, lookbackVars, revenueVars, ratiosVars, rowsVars, polygonVars, ttmPeVars, trendVars, rerunVars>>
notRows == <<epsVars, alignVars, resolveVars, sectorVars, lookbackVars, revenueVars, ratiosVars, updateVars, polygonVars, ttmPeVars, trendVars, rerunVars>>
notPolygon == <<epsVars, alignVars, resolveVars, sectorVars, lookbackVars, revenueVars, ratiosVars, updateVars, rowsVars, ttmPeVars, trendVars, rerunVars>>
notTtmPe == <<epsVars, alignVars, resolveVars, sectorVars, lookbackVars, revenueVars, ratiosVars, updateVars, rowsVars, polygonVars, trendVars, rerunVars>>
notTrend == <<epsVars, alignVars, resolveVars, sectorVars, lookbackVars, revenueVars, ratiosVars, updateVars, rowsVars, polygonVars, ttmPeVars, rerunVars>>
notRerun == <<epsVars, alignVars, resolveVars, sectorVars, lookbackVars, revenueVars, ratiosVars, updateVars, rowsVars, polygonVars, ttmPeVars, trendVars>>

None == <<>>
Some(v) == <<v>>
IsNone(x) == x = <<>>
Val(x) == x[1]

RECURSIVE SumSeq(_)
SumSeq(sq) == IF sq = <<>> THEN 0 ELSE sq[1] + SumSeq(Tail(sq))

Min(a, b) == IF a <= b THEN a ELSE b
Max(a, b) == IF a >= b THEN a ELSE b

(***************************************************************************)
(*                     Inputs of eps_ttm_points                            *)
(***************************************************************************)
NumYears == 2
Years == 1..NumYears

QuarterPeriods == <<"Q1", "Q2", "Q3">>
FilingPeriods == <<"Q1", "Q2", "Q3", "Q4", "FY">>

PIdx(p) == CASE p = "Q1" -> 1 [] p = "Q2" -> 2 [] p = "Q3" -> 3 [] OTHER -> 4

\* The end date of a fiscal period: quarters follow each other, the fiscal
\* year ends with its fourth quarter.
EndDate(y, p) == 4 * (y - 1) + PIdx(p)

\* Reported EPS of a filing.  Year 1 carries the values 1.00, 1.10, 0.90 and
\* 4.30 (FY); later years move off the cent grid.
DilutedEps(y, p) ==
    CASE p = "Q1" -> 500 + 11 * (y - 1)
      [] p = "Q2" -> 550 + 23 * (y - 1)
      [] p = "Q3" -> 450 + 47 * (y - 1)
      [] p = "Q4" -> 640 + 9 * (y - 1)
      [] OTHER    -> 2150 + 102 * (y - 1)
BasicEps(y, p) == DilutedEps(y, p) + 3

\* What the store holds for one (year, period): no record, a record with no
\* EPS at all, one with basic EPS only, one with both.
RecOpts == {"absent", "null", "basic", "both"}

Filing(y, p, opt) ==
    [fiscal_year   |-> y,
     fiscal_period |-> p,
     end_date      |-> EndDate(y, p),
     diluted_eps   |-> IF opt = "both" THEN Some(DilutedEps(y, p)) ELSE None,
     basic_eps     |-> IF opt \in {"basic", "both"} THEN Some(BasicEps(y, p)) ELSE None]

\* The hits of one shape (year, period) -> option, in end_date order.
RECURSIVE HitsFrom(_, _, _)
HitsFrom(shape, y, i) ==
    IF y > NumYears THEN <<>>
    ELSE IF i > Len(FilingPeriods) THEN HitsFrom(shape, y + 1, 1)
    ELSE LET p == FilingPeriods[i]
             rest == HitsFrom(shape, y, i + 1)
         IN  IF shape[y][p] = "absent" THEN rest
             ELSE <<Filing(y, p, shape[y][p])>> \o rest

PeriodSet == {"Q1", "Q2", "Q3", "Q4", "FY"}
FullYear == [p \in PeriodSet |-> IF p = "Q4" THEN "absent" ELSE "both"]
NoYear == [p \in PeriodSet |-> "absent"]
AnyYear == {f \in [PeriodSet -> RecOpts] : f["Q4"] \in {"absent", "both"}}

\* Filing histories: one fiscal year is arbitrary, every other year is either
\* fully reported (Q1, Q2, Q3, FY) or not in the store.
Shapes ==
    UNION {{[y \in Years |-> IF y = focus THEN f ELSE IF y \in full THEN FullYear ELSE NoYear]
               : f \in AnyYear, full \in SUBSET (Years \ {focus})}
           : focus \in Years}

\* A second record for a fiscal period some history already holds, or a
\* record whose end date does not follow its fiscal label: the store keeps
\* what the provider sent, one document per filing.
RefiledEps(y, p) == DilutedEps(y, p) + 7
Refiled(y, p, d) ==
    [fiscal_year   |-> y,
     fiscal_period |-> p,
     end_date      |-> d,
     diluted_eps   |-> Some(RefiledEps(y, p)),
     basic_eps     |-> None]
Refilings ==
    {Refiled(y, p, d) : y \in Years, p \in {"Q1", "Q2", "Q3", "FY"}, d \in 1..(4 * NumYears)}

PlainShapes == {[y \in Years |-> IF y \in full THEN FullYear ELSE NoYear] : full \in SUBSET Years}

InsertAt(sq, k, x) == SubSeq(sq, 1, k) \o <<x>> \o SubSeq(sq, k + 1, Len(sq))

\* "sort": [{"end_date": {"order": "asc"}}]; equal dates come in any order
ByEndDate(hs) == \A i, j \in 1..Len(hs) : i < j => hs[i].end_date <= hs[j].end_date

HitLists ==
    {HitsFrom(sh, 1, 1) : sh \in Shapes}
    \cup {hs \in UNION {{InsertAt(HitsFrom(sh, 1, 1), k, x) : k \in 0..Len(HitsFrom(sh, 1, 1)), x \in Refilings}
                        : sh \in PlainShapes} : ByEndDate(hs)}

(***************************************************************************)
(*                          eps_ttm_points                                 *)
(***************************************************************************)
\* round(x, 2) on the fifth-of-a-cent grid.
Round2(x) == LET r == x % 5 IN IF r <= 2 THEN x - r ELSE x + (5 - r)

choose_eps(src) ==
    IF ~IsNone(src.diluted_eps) THEN src.diluted_eps ELSE src.basic_eps

\* by_key[key] = s for every hit in order: the last one wins.
RECURSIVE CollectByKey(_, _)
CollectByKey(hs, acc) ==
    IF hs = <<>> THEN acc
    ELSE LET h == hs[1]
             key == <<h.fiscal_year, h.fiscal_period>>
         IN  CollectByKey(Tail(hs),
                 [k \in DOMAIN acc \cup {key} |-> IF k = key THEN h ELSE acc[k]])

EmptyMap == [k \in {} |-> 0]

\* The quarter points of Q1..Q3 of year y, in period order.  fy and fp tell
\* which fiscal quarter a point stands for; the program keeps date and eps only.
RECURSIVE ReportedQuarters(_, _, _)
ReportedQuarters(bk, y, i) ==
    IF i > Len(QuarterPeriods) THEN <<>>
    ELSE LET p == QuarterPeriods[i]
             rest == ReportedQuarters(bk, y, i + 1)
         IN  IF <<y, p>> \notin DOMAIN bk THEN rest
             ELSE IF IsNone(choose_eps(bk[<<y, p>>])) THEN rest
             ELSE <<[date |-> bk[<<y, p>>].end_date,
                     eps  |-> Val(choose_eps(bk[<<y, p>>])),
                     fy   |-> y, fp |-> p]>> \o rest

EpsOf(qs) == [i \in 1..Len(qs) |-> qs[i].eps]

\* Mutant: the derived Q4 rounded to the cent, as get_stock_data does.
DerivedQ4_Rounded(bk, y, q_vals) ==
    IF Len(q_vals) = 3 /\ <<y, "FY">> \in DOMAIN bk
                       /\ ~IsNone(choose_eps(bk[<<y, "FY">>]))
    THEN <<[date |-> bk[<<y, "FY">>].end_date,
            eps  |-> Round2(Val(choose_eps(bk[<<y, "FY">>])) - SumSeq(q_vals)),
            fy   |-> y, fp |-> "Q4"]>>
    ELSE <<>>

\* Q4 derived from FY: only with Q1..Q3 and an FY record with an EPS.
DerivedQ4(bk, y, q_vals) ==
    IF Len(q_vals) = 3 /\ <<y, "FY">> \in DOMAIN bk
                       /\ ~IsNone(choose_eps(bk[<<y, "FY">>]))
    THEN <<[date |-> bk[<<y, "FY">>].end_date,
            eps  |-> Val(choose_eps(bk[<<y, "FY">>])) - SumSeq(q_vals),
            fy   |-> y, fp |-> "Q4"]>>
    ELSE <<>>

YearQuarters(bk, y) ==
    LET qs == ReportedQuarters(bk, y, 1)
    IN  qs \o DerivedQ4(bk, y, EpsOf(qs))

YearsOf(bk) == {k[1] : k \in DOMAIN bk}

\* for y in years (sorted ascending)
RECURSIVE BuildQuarters(_, _)
BuildQuarters(bk, ys) ==
    IF ys = {} THEN <<>>
    ELSE LET y == CHOOSE m \in ys : \A o \in ys : m <= o
         IN  YearQuarters(bk, y) \o BuildQuarters(bk, ys \ {y})

\* Mutant: a point goes before the points of its own date.
RECURSIVE InsertByDate_TiesReversed(_, _)
InsertByDate_TiesReversed(sorted, q) ==
    IF sorted = <<>> THEN <<q>>
    ELSE IF sorted[Len(sorted)].date < q.date THEN Append(sorted, q)
    ELSE Append(InsertByDate_TiesReversed(SubSeq(sorted, 1, Len(sorted) - 1), q),
                sorted[Len(sorted)])

\* list.sort(key=date): stable.
RECURSIVE InsertByDate(_, _)
InsertByDate(sorted, q) ==
    IF sorted = <<>> THEN <<q>>
    ELSE IF sorted[Len(sorted)].date <= q.date THEN Append(sorted, q)
    ELSE Append(InsertByDate(SubSeq(sorted, 1, Len(sorted) - 1), q),
                sorted[Len(sorted)])

RECURSIVE SortByDate(_)
SortByDate(qs) ==
    IF qs = <<>> THEN <<>>
    ELSE InsertByDate(SortByDate(SubSeq(qs, 1, Len(qs) - 1)), qs[Len(qs)])

WindowSize == 4

EpsIdle ==
    /\ hits = <<>>
    /\ by_key = EmptyMap
    /\ quarters = <<>>
    /\ window = <<>>
    /\ total = 0
    /\ out = <<>>
    /\ qi = 0
    /\ epc = "idle"

EpsStart ==
    /\ hits \in HitLists
    /\ by_key = EmptyMap
    /\ quarters = <<>>
    /\ window = <<>>
    /\ total = 0
    /\ out = <<>>
    /\ qi = 0
    /\ epc = "collect"

Collect ==
    /\ epc = "collect"
    /\ by_key' = CollectByKey(hits, EmptyMap)
    /\ epc' = "build"
    /\ UNCHANGED <<hits, quarters, window, total, out, qi, notEps>>

Build ==
    /\ epc = "build"
    /\ quarters' = SortByDate(BuildQuarters(by_key, YearsOf(by_key)))
    /\ epc' = "roll"
    /\ UNCHANGED <<hits, by_key, window, total, out, qi, notEps>>

\* Mutant: the evicted value stays in the running total.
RollOnce_KeepsEvicted(w, t, o, q) ==
    LET w1 == Append(w, q.eps)
        t1 == t + q.eps
        w2 == IF Len(w1) > WindowSize THEN Tail(w1) ELSE w1
    IN  [window |-> w2,
         total  |-> t1,
         out    |-> IF Len(w2) = WindowSize
                    THEN Append(o, [date |-> q.date, eps_ttm |-> Round2(t1)])
                    ELSE o]

\* One iteration of "for q in quarters": the window, the total and the output
\* after quarter point q.
RollOnce(w, t, o, q) ==
    LET w1 == Append(w, q.eps)
        t1 == t + q.eps
        w2 == IF Len(w1) > WindowSize THEN Tail(w1) ELSE w1
        t2 == IF Len(w1) > WindowSize THEN t1 - w1[1] ELSE t1
    IN  [window |-> w2,
         total  |-> t2,
         out    |-> IF Len(w2) = WindowSize
                    THEN Append(o, [date |-> q.date, eps_ttm |-> Round2(t2)])
                    ELSE o]

RollStep ==
    /\ epc = "roll"
    /\ qi < Len(quarters)
    /\ LET r == RollOnce(window, total, out, quarters[qi + 1])
       IN  /\ window' = r.window
           /\ total' = r.total
           /\ out' = r.out
    /\ qi' = qi + 1
    /\ UNCHANGED <<hits, by_key, quarters, epc, notEps>>

Return ==
    /\ epc = "roll"
    /\ qi = Len(quarters)
    /\ epc' = "done"
    /\ UNCHANGED <<hits, by_key, quarters, window, total, out, qi, notEps>>

EpsNext == Collect \/ Build \/ RollStep \/ Return

(***************************************************************************)
(*                   prices_last_days_with_eps_pe                          *)
(***************************************************************************)
MaxDate == 4
MaxTtm == 3
Dates == 1..MaxDate

ClosePrice(d) == 10000 + 250 * d

\* prices = [{"date": ..., "close": ...} for h in price_hits]: one document
\* per (ticker, date), sorted by date; no eps and no pe key yet.
PricePoint(d) == [date |-> d, close |-> ClosePrice(d), eps |-> None, pe |-> None]

RECURSIVE PricesOn(_, _)
PricesOn(ds, d) ==
    IF d > MaxDate THEN <<>>
    ELSE (IF d \in ds THEN <<PricePoint(d)>> ELSE <<>>) \o PricesOn(ds, d + 1)

\* eps_ttm of the i-th TTM point: zero, or a value of its own (in cents * 5).
TtmValue(i, zero) == IF zero THEN 0 ELSE 2150 + 5 * i

TtmSeqs ==
    UNION {{[i \in 1..n |-> [date |-> f[i][1], eps_ttm |-> TtmValue(i, f[i][2])]]
              : f \in {g \in [1..n -> Dates \X BOOLEAN] :
                          \A i \in 1..(n - 1) : g[i][1] <= g[i + 1][1]}}
           : n \in 0..MaxTtm}

AlignIdle ==
    /\ prices = <<>>
    /\ eps_points = <<>>
    /\ p_idx = 1
    /\ e_idx = 0
    /\ attached = <<>>
    /\ apc = "idle"

AlignStart ==
    /\ \E ds \in SUBSET Dates : prices = PricesOn(ds, 1)
    /\ eps_points \in TtmSeqs
    /\ p_idx = 1
    /\ e_idx = 0
    /\ attached = <<>>
    /\ apc = "loop"

\* Mutant: the cursor also passes a price dated on the TTM date.
RECURSIVE Advance_PastEqual(_, _, _)
Advance_PastEqual(ps, i, d) ==
    IF i <= Len(ps) /\ ps[i].date <= d THEN Advance_PastEqual(ps, i + 1, d) ELSE i

\* Mutant: an "if" for the "while": the cursor moves one price at most.
Advance_OneStep(ps, i, d) ==
    IF i <= Len(ps) /\ ps[i].date < d THEN i + 1 ELSE i

\* while p_idx < len(prices) and prices[p_idx]["date"] < d: p_idx += 1
RECURSIVE Advance(_, _, _)
Advance(ps, i, d) ==
    IF i <= Len(ps) /\ ps[i].date < d THEN Advance(ps, i + 1, d) ELSE i

\* pe = close / eps_ttm: the quotient, kept as a fraction.
Quotient(close, eps_ttm) == [num |-> close, den |-> eps_ttm]

\* One iteration of "for eps in eps_points".  The eps key is written first;
\* the division then raises ZeroDivisionError when eps_ttm is 0 and the
\* function ends there, the prices never returned.
AlignStep ==
    /\ apc = "loop"
    /\ e_idx < Len(eps_points)
    /\ LET e == eps_points[e_idx + 1]
           i == Advance(prices, p_idx, e.date)
       IN  /\ p_idx' = i
           /\ e_idx' = e_idx + 1
           /\ IF i <= Len(prices)
              THEN /\ attached' = Append(attached, i)
                   /\ IF e.eps_ttm = 0
                      THEN /\ prices' = [prices EXCEPT ![i].eps = Some(e.eps_ttm)]
                           /\ apc' = "ZeroDivisionError"
                      ELSE /\ prices' = [prices EXCEPT
                                  ![i].eps = Some(e.eps_ttm),
                                  ![i].pe = Some(Quotient(prices[i].close, e.eps_ttm))]
                           /\ apc' = apc
              ELSE /\ attached' = Append(attached, 0)
                   /\ UNCHANGED <<prices, apc>>
    /\ UNCHANGED <<eps_points, notAlign>>

AlignReturn ==
    /\ apc = "loop"
    /\ e_idx = Len(eps_points)
    /\ apc' = "returned"
    /\ UNCHANGED <<prices, eps_points, p_idx, e_idx, attached, notAlign>>

AlignNext == AlignStep \/ AlignReturn

(***************************************************************************)
(*                   resolve_identifier_to_ticker                          *)
(* Strings are sequences of characters.  The stock_metadata store is an    *)
(* external collaborator: each query answers with any hit list the query   *)
(* allows, or fails in transport.  Company names of the catalog carry no   *)
(* surrounding whitespace.                                                 *)
(***************************************************************************)
MaxIdLen == 2
MaxCand == 2
SearchSize == 5

IdChars == {"g", "G", "a", " "}
Identifiers == UNION {[1..n -> IdChars] : n \in 0..MaxIdLen}
Names == {<<"g">>, <<"G">>, <<"g", "a">>}

IsSpace(c) == c = " "
UpperChar(c) == CASE c = "g" -> "G" [] c = "a" -> "A" [] OTHER -> c
LowerChar(c) == CASE c = "G" -> "g" [] c = "A" -> "a" [] OTHER -> c
Upper(str) == [i \in 1..Len(str) |-> UpperChar(str[i])]
Lower(str) == [i \in 1..Len(str) |-> LowerChar(str[i])]

RECURSIVE LStrip(_)
LStrip(str) == IF str # <<>> /\ IsSpace(str[1]) THEN LStrip(Tail(str)) ELSE str
RECURSIVE RStrip(_)
RStrip(str) ==
    IF str # <<>> /\ IsSpace(str[Len(str)])
    THEN RStrip(SubSeq(str, 1, Len(str) - 1)) ELSE str
Strip(str) == RStrip(LStrip(str))

\* The ticker of the i-th document of a name search: documents are keyed by
\* ticker, so the hits of one query have different tickers.
CandTicker(i) == [j \in 1..i |-> "X"]

\* {"size": 1, "query": {"term": {"ticker": key}}}: no hit, or one document
\* whose ticker is the key.
TermResponses(key) ==
    {<<>>, <<[ticker |-> key, name |-> <<"g">>, active |-> TRUE]>>}

\* The name query, "size": 5: up to 5 documents with ticker, name and active.
NameResponses ==
    UNION {{[i \in 1..n |-> [ticker |-> CandTicker(i), name |-> f[i][1], active |-> f[i][2]]]
              : f \in [1..n -> Names \X BOOLEAN]}
           : n \in 0..Min(MaxCand, SearchSize)}

Ticker(tk) == [kind |-> "ticker", ticker |-> tk]
HTTPException(status, about, options) ==
    [kind |-> "HTTPException", status |-> status, about |-> about, options |-> options]
NoResult == [kind |-> "none"]

\* run_opensearch_query raising on a transport error.
TransportError == HTTPException(502, <<>>, <<>>)

\* [h for h in name_hits if (name or "").lower() == s.lower()]
RECURSIVE exact_name(_, _)
exact_name(nh, str) ==
    IF nh = <<>> THEN <<>>
    ELSE (IF Lower(nh[1].name) = Lower(str) THEN <<nh[1]>> ELSE <<>>)
         \o exact_name(Tail(nh), str)

\* [h for h in name_hits if active is True]
RECURSIVE active_only(_)
active_only(nh) ==
    IF nh = <<>> THEN <<>>
    ELSE (IF nh[1].active = TRUE THEN <<nh[1]>> ELSE <<>>) \o active_only(Tail(nh))

\* The candidates of the 409 message: "TICKER (name)" of every name hit.
Options(nh) == [i \in 1..Len(nh) |-> <<nh[i].ticker, nh[i].name>>]

\* Mutant: the single active match is preferred to the unique exact name.
Disambiguate_ActiveFirst(str, nh) ==
    IF nh = <<>> THEN HTTPException(404, str, <<>>)
    ELSE IF Len(active_only(nh)) = 1 THEN Ticker(active_only(nh)[1].ticker)
    ELSE IF Len(exact_name(nh, str)) = 1 THEN Ticker(exact_name(nh, str)[1].ticker)
    ELSE HTTPException(409, str, Options(nh))

\* Mutant: the 409 lists the active candidates only.
Disambiguate_ListsActive(str, nh) ==
    IF nh = <<>> THEN HTTPException(404, str, <<>>)
    ELSE IF Len(exact_name(nh, str)) = 1 THEN Ticker(exact_name(nh, str)[1].ticker)
    ELSE IF Len(active_only(nh)) = 1 THEN Ticker(active_only(nh)[1].ticker)
    ELSE HTTPException(409, str, Options(active_only(nh)))

\* Mutant: no candidate at all is reported as ambiguous.
Disambiguate_No404(str, nh) ==
    IF Len(exact_name(nh, str)) = 1 THEN Ticker(exact_name(nh, str)[1].ticker)
    ELSE IF Len(active_only(nh)) = 1 THEN Ticker(active_only(nh)[1].ticker)
    ELSE HTTPException(409, str, Options(nh))

\* The function from "if not name_hits" on.
Disambiguate(str, nh) ==
    IF nh = <<>> THEN HTTPException(404, str, <<>>)
    ELSE IF Len(exact_name(nh, str)) = 1 THEN Ticker(exact_name(nh, str)[1].ticker)
    ELSE IF Len(active_only(nh)) = 1 THEN Ticker(active_only(nh)[1].ticker)
    ELSE HTTPException(409, str, Options(nh))

ResolveIdle ==
    /\ identifier = <<>>
    /\ s = <<>>
    /\ exact = <<>>
    /\ name_hits = <<>>
    /\ queries = <<>>
    /\ result = NoResult
    /\ rpc = "idle"

ResolveStart ==
    /\ identifier \in Identifiers
    /\ s = <<>>
    /\ exact = <<>>
    /\ name_hits = <<>>
    /\ queries = <<>>
    /\ result = NoResult
    /\ rpc = "start"

\* s = (identifier or "").strip(); if not s: raise HTTPException(400, ...)
StripIdentifier ==
    /\ rpc = "start"
    /\ s' = Strip(identifier)
    /\ IF Strip(identifier) = <<>>
       THEN result' = HTTPException(400, <<>>, <<>>) /\ rpc' = "done"
       ELSE result' = result /\ rpc' = "exact"
    /\ UNCHANGED <<identifier, exact, name_hits, queries, notResolve>>

\* One entry of the query history: the query, and how the store answered.
Query(kind, key, failed, n) == [kind |-> kind, key |-> key, failed |-> failed, nhits |-> n]

\* Mutant: an exact hit does not end the resolution.
ExactOutcome_FallsThrough(resp) == [result |-> NoResult, rpc |-> "name"]

\* if exact: return exact[0]["_source"]["ticker"]
ExactOutcome(resp) ==
    IF resp # <<>>
    THEN [result |-> Ticker(resp[1].ticker), rpc |-> "done"]
    ELSE [result |-> NoResult, rpc |-> "name"]

\* 1) Exact ticker match
ExactLookup ==
    /\ rpc = "exact"
    /\ \/ \E resp \in TermResponses(Upper(s)) :
            /\ queries' = Append(queries, Query("term", Upper(s), FALSE, Len(resp)))
            /\ exact' = resp
            /\ result' = ExactOutcome(resp).result
            /\ rpc' = ExactOutcome(resp).rpc
       \/ /\ queries' = Append(queries, Query("term", Upper(s), TRUE, 0))
          /\ result' = TransportError
          /\ rpc' = "done"
          /\ exact' = exact
    /\ UNCHANGED <<identifier, s, name_hits, notResolve>>

\* 2) Company name search, and the choice among its hits
NameSearch ==
    /\ rpc = "name"
    /\ \/ \E resp \in NameResponses :
            /\ queries' = Append(queries, Query("name", s, FALSE, Len(resp)))
            /\ name_hits' = resp
            /\ result' = Disambiguate(s, resp)
       \/ /\ queries' = Append(queries, Query("name", s, TRUE, 0))
          /\ result' = TransportError
          /\ name_hits' = name_hits
    /\ rpc' = "done"
    /\ UNCHANGED <<identifier, s, exact, notResolve>>

ResolveNext == StripIdentifier \/ ExactLookup \/ NameSearch

(***************************************************************************)
(*          derive_sector_from_sic (src/ingest/fetch_stock_metadata.py)    *)
(***************************************************************************)

\* A SIC code arrives as a string (or None).  A string is a sequence of
\* one-character strings, as in the resolver.
DigitChars == <<"0", "1", "2", "3", "4", "5", "6", "7", "8", "9">>
IsDigit(c) == \E k \in 1..10 : DigitChars[k] = c
DigitValue(c) == (CHOOSE k \in 1..10 : DigitChars[k] = c) - 1

\* The four-digit, zero-padded string of a code: 737 is "0737".
Digits4(n) ==
    << DigitChars[((n \div 1000) % 10) + 1], DigitChars[((n \div 100) % 10) + 1],
       DigitChars[((n \div 10) % 10) + 1], DigitChars[(n % 10) + 1] >>

\* The whole space of four-digit codes.
SicSpace == 0..9999

\* Codes also given in other shapes: with a fifth character (a longer code,
\* or a stray letter), cut short, or holding a letter.
ProbeCodes == {100, 737, 1311, 2834, 4911, 7372, 8111, 9729}
SicCodes ==
    {None}
    \cup {Some(Digits4(n)) : n \in SicSpace}
    \cup {Some(Digits4(n) \o <<c>>) : n \in ProbeCodes, c \in {"0", "9", "x"}}
    \cup {Some(SubSeq(Digits4(n), 1, k)) : n \in ProbeCodes, k \in 0..3}
    \cup {Some(SubSeq(Digits4(n), 1, k) \o <<"x">>) : n \in ProbeCodes, k \in 0..3}

\* str(code)[:4]
First4(str) == SubSeq(str, 1, Min(4, Len(str)))

\* int(str) of a string without sign or blanks: the digits in base ten; an
\* empty string or a character that is no digit raises ValueError.
RECURSIVE IntOfDigits(_, _)
IntOfDigits(str, acc) ==
    IF str = <<>> THEN acc
    ELSE IntOfDigits(Tail(str), 10 * acc + DigitValue(str[1]))

\* _parse_sic: None for None and for what int() rejects
_parse_sic(code) ==
    IF IsNone(code) THEN None
    ELSE LET str == First4(Val(code))
         IN  IF str = <<>> \/ \E k \in 1..Len(str) : ~IsDigit(str[k])
             THEN None
             ELSE Some(IntOfDigits(str, 0))

_in(i, lo, hi) == lo <= i /\ i <= hi

\* --- Targeted overrides
Overrides(i) ==
    IF _in(i, 3570, 3579) THEN Some("Technology")
    ELSE IF _in(i, 3660, 3699) THEN Some("Technology")
    ELSE IF _in(i, 3670, 3679) THEN Some("Technology")
    ELSE IF _in(i, 7370, 7379) THEN Some("Technology")
    ELSE IF _in(i, 2830, 2839) THEN Some("HealthCare")
    ELSE IF _in(i, 3840, 3851) THEN Some("HealthCare")
    ELSE IF _in(i, 8000, 8099) THEN Some("HealthCare")
    ELSE IF _in(i, 4910, 4999) THEN Some("Utilities")
    ELSE IF _in(i, 1310, 1389) \/ _in(i, 2900, 2999) THEN Some("Energy")
    ELSE IF _in(i, 6500, 6799) THEN Some("Real Estate")
    ELSE None

\* --- Broad ranges fallback
BroadRanges(i) ==
    IF _in(i, 100, 999) THEN Some("Industrial")
    ELSE IF _in(i, 1000, 1499) THEN Some("Materials")
    ELSE IF _in(i, 1500, 1799) THEN Some("Industrial")
    ELSE IF _in(i, 2000, 3999)
         THEN IF _in(i, 2000, 2399) \/ _in(i, 2500, 2599) \/ _in(i, 3000, 3199)
              THEN Some("Consumer")
              ELSE Some("Industrial")
    ELSE IF _in(i, 4000, 4899) THEN Some("Industrial")
    ELSE IF _in(i, 5000, 5999) THEN Some("Consumer")
    ELSE IF _in(i, 6000, 6499) THEN Some("Finance")
    ELSE IF _in(i, 7000, 7999)
         THEN IF _in(i, 7800, 7999) THEN Some("Consumer") ELSE Some("Industrial")
    ELSE IF _in(i, 9100, 9729) THEN Some("Industrial")
    ELSE None

\* Mutant: the broad ranges are tried before the overrides.
FirstMatch_BroadFirst(i) ==
    IF ~IsNone(BroadRanges(i)) THEN BroadRanges(i) ELSE Overrides(i)

\* The rules top to bottom, the first that matches returns.
FirstMatch(i) ==
    IF ~IsNone(Overrides(i)) THEN Overrides(i) ELSE BroadRanges(i)

SectorIdle ==
    /\ sic_code = None
    /\ sic = None
    /\ sector = None
    /\ spc = "idle"

SectorStart ==
    /\ sic_code \in SicCodes
    /\ sic = None
    /\ sector = None
    /\ spc = "parse"

\* i = _parse_sic(sic_code); if i is None: return None
ParseSic ==
    /\ spc = "parse"
    /\ sic' = _parse_sic(sic_code)
    /\ spc' = IF IsNone(_parse_sic(sic_code)) THEN "done" ELSE "rules"
    /\ UNCHANGED <<sic_code, sector, notSector>>

\* the rule table, down to the final return None
Classify ==
    /\ spc = "rules"
    /\ sector' = FirstMatch(Val(sic))
    /\ spc' = "done"
    /\ UNCHANGED <<sic_code, sic, notSector>>

SectorNext == ParseSic \/ Classify

(***************************************************************************)
(*        find_price_years_ago (src/ingest/update_stock_summary.py)        *)
(*                                                                         *)
(* A date is <<year, month, day>>; the order of datetime values is the     *)
(* lexicographic order of these triples.  A close is a whole number of     *)
(* cents, or None.  A price point is the pair <<date, close>> that         *)
(* fetch_prices returns.                                                   *)
(***************************************************************************)

\* for years in [1, 3, 5]
Windows == {1, 3, 5}

\* The calendar of the model: the days around the end of February of the six
\* years that the longest window spans.
LastYear == 2024
PriceYears == (LastYear - 5)..LastYear
IsLeap(y) == y % 4 = 0 /\ (y % 100 # 0 \/ y % 400 = 0)
IsDate(dt) == ~(dt[2] = 2 /\ dt[3] = 29 /\ ~IsLeap(dt[1]))
PriceDates ==
    {dt \in PriceYears \X {<<2, 28>>, <<2, 29>>, <<3, 1>>} :
         IsDate(<<dt[1], dt[2][1], dt[2][2]>>)}
DateOf(dt) == <<dt[1], dt[2][1], dt[2][2]>>

\* date <= cutoff, of datetime
DateLeq(a, b) ==
    \/ a[1] < b[1]
    \/ a[1] = b[1] /\ a[2] < b[2]
    \/ a[1] = b[1] /\ a[2] = b[2] /\ a[3] <= b[3]

\* The close stored for a day: by default a positive number that differs from
\* day to day; one point of a series may instead hold no close, zero, or a
\* negative number.
CloseOn(dt) == 1000 * (dt[1] - 2000) + 100 * dt[2] + dt[3]
CloseKinds == {"null", "zero", "negative"}
CloseAs(dt, kind) ==
    CASE kind = "null" -> None
      [] kind = "zero" -> Some(0)
      [] kind = "negative" -> Some(0 - CloseOn(dt))
      [] OTHER -> Some(CloseOn(dt))

\* The days of a set in ascending order, as fetch_prices sorts them.
RECURSIVE Ascending(_)
Ascending(ds) ==
    IF ds = {} THEN <<>>
    ELSE LET first == CHOOSE a \in ds : \A b \in ds : DateLeq(a, b)
         IN  <<first>> \o Ascending(ds \ {first})

\* The series over the days ds in which the k-th point (none if k = 0) has a
\* close of the given kind.
SeriesOf(ds, k, kind) ==
    LET days == Ascending(ds)
    IN  [i \in 1..Len(days) |->
            <<days[i], IF i = k THEN CloseAs(days[i], kind) ELSE CloseAs(days[i], "ok")>>]

MaxPrices == 3
DaySets(n) == {ds \in SUBSET {DateOf(dt) : dt \in PriceDates} : Cardinality(ds) <= n}
PriceSeries(n) ==
    {SeriesOf(ds, 0, "ok") : ds \in DaySets(n)}
    \cup UNION {{SeriesOf(ds, k, kind) : k \in 1..Cardinality(ds), kind \in CloseKinds} :
                    ds \in DaySets(n)}

\* How a call ends: with a value, or with an exception.
Returned(v) == [kind |-> "return", value |-> v]
Raised(err) == [kind |-> "raise", error |-> err]

\* last_date.replace(year = y): ValueError when the day does not exist in y
replace_year(dt, y) ==
    IF IsDate(<<y, dt[2], dt[3]>>) THEN Returned(<<y, dt[2], dt[3]>>)
    ELSE Raised("ValueError")

\* for date_str, price in reversed(price_data): if date <= cutoff: return price
RECURSIVE ScanBack(_, _, _)
ScanBack(pd, k, cutoff) ==
    IF k = 0 THEN None
    ELSE IF DateLeq(pd[k][1], cutoff) THEN pd[k][2]
         ELSE ScanBack(pd, k - 1, cutoff)

find_price_years_ago(pd, n) ==
    IF pd = <<>> THEN Returned(None)
    ELSE LET last_date == pd[Len(pd)][1]
             cutoff == replace_year(last_date, last_date[1] - n)
         IN  IF cutoff.kind = "raise" THEN cutoff
             ELSE Returned(ScanBack(pd, Len(pd), cutoff.value))

NotCalled == [kind |-> "none"]

LookbackIdle ==
    /\ price_data = <<>>
    /\ years = 0
    /\ past = NotCalled
    /\ fpc = "idle"

LookbackStart ==
    /\ price_data \in PriceSeries(MaxPrices)
    /\ years \in Windows
    /\ past = NotCalled
    /\ fpc = "call"

\* past = find_price_years_ago(prices, years)
FindPrice ==
    /\ fpc = "call"
    /\ past' = find_price_years_ago(price_data, years)
    /\ fpc' = "done"
    /\ UNCHANGED <<price_data, years, notLookback>>

LookbackNext == FindPrice

(***************************************************************************)
(*      find_revenue_growth_cagr (src/ingest/update_stock_summary.py)      *)
(*                                                                         *)
(* An earnings document is its _source.  fiscal_year is stored as the      *)
(* fetcher got it, a string of digits ("2024") or a JSON integer (2024):   *)
(* it is modelled as [type, value], so that str(year) and int(fy) are the  *)
(* conversions they are in the program.  A revenue is a whole number, or    *)
(* None when the record has none.                                          *)
(***************************************************************************)

Periods == {"Q1", "Q2", "Q3", "Q4", "FY"}

\* str(year), and a fiscal year stored as an integer
StrYear(y) == [type |-> "str", value |-> y]
IntYear(y) == [type |-> "int", value |-> y]
YearAs(type, y) == IF type = "str" THEN StrYear(y) ELSE IntYear(y)
\* int(fy)
IntOf(fy) == fy.value

\* fiscal_period.upper()
PeriodUpper(p) ==
    CASE p = "q1" -> "Q1" [] p = "q2" -> "Q2" [] p = "q3" -> "Q3"
      [] p = "q4" -> "Q4" [] p = "fy" -> "FY" [] OTHER -> p
PeriodLower(p) ==
    CASE p = "Q1" -> "q1" [] p = "Q2" -> "q2" [] p = "Q3" -> "q3"
      [] p = "Q4" -> "q4" [] p = "FY" -> "fy" [] OTHER -> p

\* period_order.get(..., 0)
period_order(p) ==
    CASE p = "Q1" -> 1 [] p = "Q2" -> 2 [] p = "Q3" -> 3 [] p = "Q4" -> 4
      [] p = "FY" -> 5 [] OTHER -> 0

\* The revenue a record reports: by default positive and different from
\* record to record; one record of a list may instead report none, zero, or
\* a negative number, or spell its period in lower case.
RevenueOf(y, p) == 100 * (y - 2000) + period_order(p)
RevenueKinds == {"null", "zero", "negative", "lower"}
RevenueAs(y, p, kind) ==
    CASE kind = "null" -> None
      [] kind = "zero" -> Some(0)
      [] kind = "negative" -> Some(0 - RevenueOf(y, p))
      [] OTHER -> Some(RevenueOf(y, p))

\* The (fiscal year, period) slots records are drawn from: every period of
\* the latest year, and the closing periods of the years 1, 3 and 5 before.
FilingSlots ==
    ({LastYear} \X Periods) \cup ({LastYear - n : n \in Windows} \X {"Q4", "FY"})

\* A slot is later than another when filed later; fetch_earnings sorts by
\* filing_date descending.
SlotAfter(a, b) ==
    \/ a[1] > b[1]
    \/ a[1] = b[1] /\ period_order(a[2]) >= period_order(b[2])
RECURSIVE LatestFirst(_)
LatestFirst(slots) ==
    IF slots = {} THEN <<>>
    ELSE LET first == CHOOSE a \in slots : \A b \in slots : SlotAfter(a, b)
         IN  <<first>> \o LatestFirst(slots \ {first})

\* The list over the given slots, fiscal years stored as the given type, the
\* k-th record (none if k = 0) being of the given kind.
FilingsOf(slots, type, k, kind) ==
    LET sq == LatestFirst(slots)
    IN  [i \in 1..Len(sq) |->
            [fiscal_year |-> YearAs(type, sq[i][1]),
             fiscal_period |-> IF i = k /\ kind = "lower"
                               THEN PeriodLower(sq[i][2]) ELSE sq[i][2],
             revenues |-> IF i = k THEN RevenueAs(sq[i][1], sq[i][2], kind)
                          ELSE RevenueAs(sq[i][1], sq[i][2], "ok")]]

MaxFilings == 3
SlotSets(n) == {ss \in SUBSET FilingSlots : Cardinality(ss) <= n}
EarningsLists(n) ==
    UNION {{FilingsOf(ss, type, 0, "ok") : ss \in SlotSets(n)}
           \cup UNION {{FilingsOf(ss, type, k, kind) :
                            k \in 1..Cardinality(ss), kind \in RevenueKinds} :
                       ss \in SlotSets(n)} :
           type \in {"str", "int"}}

\* round((end / start) ** (1 / years) - 1, 4) * 100.  The root is not a
\* rational number: the value is kept as its operands, the ratio in lowest
\* terms, so that equal growths are equal values.
RECURSIVE Gcd(_, _)
Gcd(a, b) == IF b = 0 THEN a ELSE Gcd(b, a % b)
Growth(start, end, n) ==
    [num |-> end \div Gcd(end, start), den |-> start \div Gcd(end, start), root |-> n]

calc_cagr(start, end, n) ==
    IF start <= 0 \/ end <= 0 \/ n <= 0 THEN None
    ELSE Some(Growth(start, end, n))

\* the first document of the list with that year and period and a numeric revenue
RECURSIVE find_quarter_revenue(_, _, _)
find_quarter_revenue(docs, year, period) ==
    IF docs = <<>> THEN None
    ELSE LET doc == docs[1]
         IN  IF /\ doc.fiscal_year = StrYear(year)
                /\ PeriodUpper(doc.fiscal_period) = period
                /\ ~IsNone(doc.revenues)
             THEN doc.revenues
             ELSE find_quarter_revenue(Tail(docs), year, period)

\* sorted(earnings, key = (fiscal_year, period_order)): a stable sort
FiscalKeyLeq(a, b) ==
    \/ a.fiscal_year.value < b.fiscal_year.value
    \/ /\ a.fiscal_year.value = b.fiscal_year.value
       /\ period_order(PeriodUpper(a.fiscal_period))
              <= period_order(PeriodUpper(b.fiscal_period))
RECURSIVE InsertByFiscalKey(_, _)
InsertByFiscalKey(sorted, doc) ==
    IF sorted = <<>> THEN <<doc>>
    ELSE LET last == sorted[Len(sorted)]
         IN  IF FiscalKeyLeq(last, doc) THEN Append(sorted, doc)
             ELSE Append(InsertByFiscalKey(SubSeq(sorted, 1, Len(sorted) - 1), doc), last)
RECURSIVE SortByFiscalKey(_)
SortByFiscalKey(docs) ==
    IF docs = <<>> THEN <<>>
    ELSE InsertByFiscalKey(SortByFiscalKey(SubSeq(docs, 1, Len(docs) - 1)), docs[Len(docs)])

\* for doc in reversed(sorted_docs): the first with a numeric revenue and a
\* known period decides; break
RECURSIVE LatestGrowth(_, _, _, _)
LatestGrowth(sorted_docs, k, docs, n) ==
    IF k = 0 THEN None
    ELSE LET doc == sorted_docs[k]
             fp == PeriodUpper(doc.fiscal_period)
         IN  IF ~IsNone(doc.revenues) /\ fp \in Periods
             THEN LET rev_then == find_quarter_revenue(docs, IntOf(doc.fiscal_year) - n, fp)
                  IN  IF ~IsNone(rev_then) /\ Val(rev_then) # 0
                      THEN calc_cagr(Val(rev_then), Val(doc.revenues), n)
                      ELSE None
             ELSE LatestGrowth(sorted_docs, k - 1, docs, n)

find_revenue_growth_cagr(docs, n) ==
    LatestGrowth(SortByFiscalKey(docs), Len(docs), docs, n)

RevenueIdle ==
    /\ earnings = <<>>
    /\ rev_years = 0
    /\ growth = NotCalled
    /\ gpc = "idle"

RevenueStart ==
    /\ earnings \in EarningsLists(MaxFilings)
    /\ rev_years \in Windows
    /\ growth = NotCalled
    /\ gpc = "call"

\* growth = find_revenue_growth_cagr(earnings, years)
FindRevenueGrowth ==
    /\ gpc = "call"
    /\ growth' = Returned(find_revenue_growth_cagr(earnings, rev_years))
    /\ gpc' = "done"
    /\ UNCHANGED <<earnings, rev_years, notRevenue>>

RevenueNext == FindRevenueGrowth

(***************************************************************************)
(*      compute_financial_ratios (src/ingest/update_stock_summary.py)      *)
(*                                                                         *)
(* A balance-sheet figure is a whole number, or None when the document has *)
(* no number there (key missing, null, or not a number).  A ratio is kept   *)
(* in hundredths, the two decimals of round(x, 2).                         *)
(***************************************************************************)

RatioFields ==
    {"assets", "equity", "liabilities", "net_income",
     "diluted_average_shares", "basic_average_shares"}

\* What a field holds when it holds a positive number.
FigureOf(field) ==
    CASE field = "assets" -> 700
      [] field = "equity" -> 300
      [] field = "liabilities" -> 400
      [] field = "net_income" -> 21
      [] field = "diluted_average_shares" -> 11
      [] OTHER -> 10
FigureKinds == {"null", "zero", "negative", "positive"}
FigureAs(field, kind) ==
    CASE kind = "null" -> None
      [] kind = "zero" -> Some(0)
      [] kind = "negative" -> Some(0 - FigureOf(field))
      [] OTHER -> Some(FigureOf(field))

\* The _source documents, one for every choice of what each field holds.
BalanceSheets == {[f \in RatioFields |-> FigureAs(f, kinds[f])] : kinds \in [RatioFields -> FigureKinds]}

\* The latest close handed over: none, zero, negative or positive.
LatestPrices == {CloseAs(<<LastYear, 3, 1>>, kind) : kind \in CloseKinds \cup {"ok"}}

\* round(n / d, 0) for d > 0; the figures of the model meet no tie
RoundDiv(n, d) == (2 * n + d) \div (2 * d)

\* src.get("diluted_average_shares") or src.get("basic_average_shares")
OrElse(a, b) == IF ~IsNone(a) /\ Val(a) # 0 THEN a ELSE b

\* Mutant: return on equity is computed only when return on assets was.
compute_financial_ratios_RoeAfterRoa(src, price) ==
    LET assets == src["assets"]
        equity == src["equity"]
        liabilities == src["liabilities"]
        net_income == src["net_income"]
        shares == OrElse(src["diluted_average_shares"], src["basic_average_shares"])
        roa_ok == ~IsNone(net_income) /\ ~IsNone(assets) /\ Val(assets) > 0
    IN  [roa |-> IF roa_ok
                 THEN Some(RoundDiv(10000 * Val(net_income), Val(assets)))
                 ELSE None,
         roe |-> IF roa_ok /\ ~IsNone(equity) /\ Val(equity) > 0
                 THEN Some(RoundDiv(10000 * Val(net_income), Val(equity)))
                 ELSE None,
         debt_to_equity |->
                 IF ~IsNone(liabilities) /\ ~IsNone(equity) /\ Val(equity) > 0
                 THEN Some(RoundDiv(100 * Val(liabilities), Val(equity)))
                 ELSE None,
         market_cap |->
                 IF /\ ~IsNone(price) /\ Val(price) # 0
                    /\ ~IsNone(shares) /\ Val(shares) > 0
                 THEN Some(Val(price) * Val(shares))
                 ELSE None]

\* The dict returned, as a record: a key the dict lacks is None here.
compute_financial_ratios(src, price) ==
    LET assets == src["assets"]
        equity == src["equity"]
        liabilities == src["liabilities"]
        net_income == src["net_income"]
        shares == OrElse(src["diluted_average_shares"], src["basic_average_shares"])
    IN  [roa |-> IF ~IsNone(net_income) /\ ~IsNone(assets) /\ Val(assets) > 0
                 THEN Some(RoundDiv(10000 * Val(net_income), Val(assets)))
                 ELSE None,
         roe |-> IF ~IsNone(net_income) /\ ~IsNone(equity) /\ Val(equity) > 0
                 THEN Some(RoundDiv(10000 * Val(net_income), Val(equity)))
                 ELSE None,
         debt_to_equity |->
                 IF ~IsNone(liabilities) /\ ~IsNone(equity) /\ Val(equity) > 0
                 THEN Some(RoundDiv(100 * Val(liabilities), Val(equity)))
                 ELSE None,
         market_cap |->
                 IF /\ ~IsNone(price) /\ Val(price) # 0
                    /\ ~IsNone(shares) /\ Val(shares) > 0
                 THEN Some(Val(price) * Val(shares))
                 ELSE None]

RatiosIdle ==
    /\ latest_earnings = [f \in RatioFields |-> None]
    /\ latest_price = None
    /\ ratios = NotCalled
    /\ cpc = "idle"

RatiosStart ==
    /\ latest_earnings \in BalanceSheets
    /\ latest_price \in LatestPrices
    /\ ratios = NotCalled
    /\ cpc = "call"

\* ratios = compute_financial_ratios(latest_earn, get_latest_price(prices))
ComputeRatios ==
    /\ cpc = "call"
    /\ ratios' = Returned(compute_financial_ratios(latest_earnings, latest_price))
    /\ cpc' = "done"
    /\ UNCHANGED <<latest_earnings, latest_price, notRatios>>

RatiosNext == ComputeRatios

(***************************************************************************)
(*                update (src/ingest/update_stock_summary.py)              *)
(*                                                                         *)
(* One run of the batch over a list of tickers.  What the store answers    *)
(* for a ticker (its prices, its earnings documents) is drawn when the run *)
(* fetches it.  A key of the summary document is None when the document    *)
(* lacks it and <<v>> when it holds v; v itself may be None (JSON null).    *)
(***************************************************************************)

Absent == <<>>
Present(v) == <<v>>

MaxTickers == 2
TickerNames == <<"AAA", "BBB", "CCC">>
TickerLists == {[i \in 1..n |-> TickerNames[i]] : n \in 1..Min(MaxTickers, Len(TickerNames))}

\* The sectors of stock_metadata: the first ticker has one, the others none.
SectorMaps == {[t \in {TickerNames[1]} |-> "Technology"]}

\* The days the store may hold closes for in a run of the batch, and the
\* series over them.
FetchedDays ==
    {<<LastYear - 5, 2, 28>>, <<LastYear - 1, 2, 28>>, <<LastYear, 2, 28>>, <<LastYear, 2, 29>>}
MaxFetched == 2
FetchedPrices ==
    LET sets == {ds \in SUBSET FetchedDays : Cardinality(ds) <= MaxFetched}
    IN  {SeriesOf(ds, 0, "ok") : ds \in sets}
        \cup UNION {{SeriesOf(ds, k, kind) : k \in 1..Cardinality(ds), kind \in CloseKinds} :
                        ds \in sets}

\* The earnings documents the store may hold for a ticker in a run of the
\* batch: fiscal years as the fetcher stores them, and every field the run
\* reads.
PeriodEnd(y, p) ==
    CASE p = "Q1" -> <<y, 3, 31>> [] p = "Q2" -> <<y, 6, 30>>
      [] p = "Q3" -> <<y, 9, 30>> [] OTHER -> <<y, 12, 31>>
BasicEpsOf(y, p) == 500 + (y - 2000) + 7 * period_order(p)
FullSource(src) ==
    [f \in RatioFields |-> FigureAs(f, "positive")]
    @@ [fiscal_year |-> src.fiscal_year,
        fiscal_period |-> src.fiscal_period,
        revenues |-> src.revenues,
        end_date |-> PeriodEnd(src.fiscal_year.value, PeriodUpper(src.fiscal_period)),
        basic_eps |-> Some(BasicEpsOf(src.fiscal_year.value, PeriodUpper(src.fiscal_period)))]
FetchedSlots == ({LastYear} \X {"Q3", "FY"}) \cup {<<LastYear - 1, "FY">>}
FetchedEarnings ==
    LET lists == {FilingsOf(ss, "str", 0, "ok") : ss \in SUBSET FetchedSlots}
                 \cup UNION {{FilingsOf(ss, "str", k, kind) :
                                  k \in 1..Cardinality(ss), kind \in RevenueKinds} :
                             ss \in SUBSET FetchedSlots}
    IN  {[i \in 1..Len(docs) |-> FullSource(docs[i])] : docs \in lists}

\* price_data[-1][1], None for no prices
get_latest_price(pd) == IF pd = <<>> THEN None ELSE pd[Len(pd)][2]

\* sorted(earnings, key = end_date, reverse = True): stable, latest first
RECURSIVE InsertByEndDateDesc(_, _)
InsertByEndDateDesc(sorted, d) ==
    IF sorted = <<>> THEN <<d>>
    ELSE LET last == sorted[Len(sorted)]
         IN  IF DateLeq(d.end_date, last.end_date) THEN Append(sorted, d)
             ELSE Append(InsertByEndDateDesc(SubSeq(sorted, 1, Len(sorted) - 1), d), last)
RECURSIVE SortByEndDateDesc(_)
SortByEndDateDesc(docs) ==
    IF docs = <<>> THEN <<>>
    ELSE InsertByEndDateDesc(SortByEndDateDesc(SubSeq(docs, 1, Len(docs) - 1)), docs[Len(docs)])

\* the basic_eps of the documents that have a numeric one
RECURSIVE NumericBasicEps(_)
NumericBasicEps(docs) ==
    IF docs = <<>> THEN <<>>
    ELSE IF IsNone(docs[1].basic_eps) THEN NumericBasicEps(Tail(docs))
         ELSE <<Val(docs[1].basic_eps)>> \o NumericBasicEps(Tail(docs))

compute_ttm_eps(docs) ==
    LET sorted_eps == NumericBasicEps(SortByEndDateDesc(docs))
    IN  IF Len(sorted_eps) >= 4 THEN Some(Round2(SumSeq(SubSeq(sorted_eps, 1, 4))))
        ELSE None

\* a Python number or None taken as a condition: false for None and for 0
Truthy(x) == ~IsNone(x) /\ Val(x) # 0

\* get_price_trend_5y: the closes of the store between today - 5 years and
\* today; for each year and each of the months 3, 6, 9, 12 the close of the
\* latest of the days 31 down to 25 that has one.  datetime(y, 6, 31) and
\* datetime(y, 9, 31) raise, and the except clause leaves these months out.
\* start = end.replace(year = end.year - 5) raises on a February 29.
Today == <<LastYear, 3, 1>>
HasDay31(m) == m \in {1, 3, 5, 7, 8, 10, 12}
InTrendWindow(dt, start, end) == DateLeq(start, dt) /\ DateLeq(dt, end)
TrendClose(pd, y, m, start, end) ==
    LET found == {i \in 1..Len(pd) :
                     /\ InTrendWindow(pd[i][1], start, end) /\ ~IsNone(pd[i][2])
                     /\ pd[i][1][1] = y /\ pd[i][1][2] = m /\ pd[i][1][3] >= 25}
    IN  IF found = {} \/ ~HasDay31(m) THEN None
        ELSE pd[CHOOSE i \in found : \A j \in found : j <= i][2]
RECURSIVE TrendFrom(_, _, _, _, _)
TrendFrom(pd, y, q, start, end) ==
    IF y > end[1] THEN <<>>
    ELSE LET c == TrendClose(pd, y, 3 * q, start, end)
             rest == IF q = 4 THEN TrendFrom(pd, y + 1, 1, start, end)
                     ELSE TrendFrom(pd, y, q + 1, start, end)
         IN  IF IsNone(c) THEN rest ELSE <<Val(c)>> \o rest
get_price_trend_5y(pd, today) ==
    LET start == replace_year(today, today[1] - 5)
    IN  IF start.kind = "raise" THEN start
        ELSE Returned(TrendFrom(pd, start.value[1], 1, start.value, today))

\* get_last_n_annual_revenues: per fiscal year the FY revenue, or an estimate
\* from Q1..Q3, Q1..Q2 or Q1; the last n years in ascending order.  Revenues
\* of the result are in hundredths (round(x, 2)).
RevenueIn(docs, y, p) ==
    LET found == {i \in 1..Len(docs) :
                     /\ docs[i].fiscal_year.value = y
                     /\ PeriodUpper(docs[i].fiscal_period) = p
                     /\ ~IsNone(docs[i].revenues)}
    IN  IF found = {} THEN None
        ELSE docs[CHOOSE i \in found : \A j \in found : j <= i].revenues
AnnualRevenue(docs, y) ==
    LET fy == RevenueIn(docs, y, "FY")
        q1 == RevenueIn(docs, y, "Q1")
        q2 == RevenueIn(docs, y, "Q2")
        q3 == RevenueIn(docs, y, "Q3")
    IN  IF ~IsNone(fy)
        THEN Some([year |-> y, revenue |-> 100 * Val(fy), estimated |-> FALSE])
        ELSE IF ~IsNone(q1) /\ ~IsNone(q2) /\ ~IsNone(q3)
        THEN Some([year |-> y, estimated |-> TRUE,
                   revenue |-> RoundDiv(400 * (Val(q1) + Val(q2) + Val(q3)), 3)])
        ELSE IF ~IsNone(q1) /\ ~IsNone(q2)
        THEN Some([year |-> y, estimated |-> TRUE, revenue |-> 200 * (Val(q1) + Val(q2))])
        ELSE IF ~IsNone(q1)
        THEN Some([year |-> y, estimated |-> TRUE, revenue |-> 400 * Val(q1)])
        ELSE None
RECURSIVE AnnualFrom(_, _)
AnnualFrom(docs, y) ==
    IF y > LastYear THEN <<>>
    ELSE LET a == AnnualRevenue(docs, y)
         IN  (IF IsNone(a) THEN <<>> ELSE <<Val(a)>>) \o AnnualFrom(docs, y + 1)
get_last_n_annual_revenues(docs, n) ==
    LET full_years == AnnualFrom(docs, LastYear - 5)
    IN  SubSeq(full_years, Max(1, Len(full_years) - n + 1), Len(full_years))

\* for years in [1, 3, 5]: past = find_price_years_ago(prices, years);
\* if past and latest: doc[price_growth_Ny] = calc_cagr(past, latest, years)
PriceGrowth(pd, n) ==
    LET past_n == find_price_years_ago(pd, n).value
        latest == get_latest_price(pd)
    IN  IF Truthy(past_n) /\ Truthy(latest)
        THEN Present(calc_cagr(Val(past_n), Val(latest), n))
        ELSE Absent

\* growth = find_revenue_growth_cagr(earnings, years);
\* if growth is not None: doc[revenue_growth_Ny] = growth
RevenueGrowth(docs, n) ==
    LET g == find_revenue_growth_cagr(docs, n)
    IN  IF ~IsNone(g) THEN Present(g) ELSE Absent

\* the document of one ticker, lines 354-381
SummaryDoc(ticker, pd, docs, sectors, today) ==
    LET ttm_eps == compute_ttm_eps(docs)
        latest == get_latest_price(pd)
        fin == compute_financial_ratios(docs[1], get_latest_price(pd))
    IN  [ttm_pe_ratio |-> IF Truthy(ttm_eps) /\ Truthy(latest)
                          THEN Present(Quotient(Val(latest), Val(ttm_eps)))
                          ELSE Absent,
         price_growth |-> [n \in Windows |-> PriceGrowth(pd, n)],
         revenue_growth |-> [n \in Windows |-> RevenueGrowth(docs, n)],
         price_history |-> Present(get_price_trend_5y(pd, today).value),
         revenue_history |-> Present(get_last_n_annual_revenues(docs, 5)),
         roa |-> fin.roa,
         roe |-> fin.roe,
         debt_to_equity |-> fin.debt_to_equity,
         market_cap |-> fin.market_cap,
         sector |-> IF ticker \in DOMAIN sectors THEN Present(sectors[ticker]) ELSE Absent]

EmptyDoc ==
    [ttm_pe_ratio |-> Absent,
     price_growth |-> [n \in Windows |-> Absent],
     revenue_growth |-> [n \in Windows |-> Absent],
     price_history |-> Absent, revenue_history |-> Absent,
     roa |-> Absent, roe |-> Absent, debt_to_equity |-> Absent, market_cap |-> Absent,
     sector |-> Absent]

UpdateIdle ==
    /\ tickers = <<>>
    /\ sector_map = <<>>
    /\ t_idx = 0
    /\ upd_prices = <<>>
    /\ upd_earnings = <<>>
    /\ summary_doc = EmptyDoc
    /\ indexed = <<>>
    /\ index_status = 0
    /\ upc = "idle"

\* update(tickers), after sector_map = fetch_sector_map()
UpdateStart ==
    /\ tickers \in TickerLists
    /\ sector_map \in SectorMaps
    /\ t_idx = 1
    /\ upd_prices = <<>>
    /\ upd_earnings = <<>>
    /\ summary_doc = EmptyDoc
    /\ indexed = <<>>
    /\ index_status = 0
    /\ upc = "fetch"

\* prices = fetch_prices(ticker); earnings = fetch_earnings(ticker);
\* if not prices or not earnings: continue
FetchTicker ==
    /\ upc = "fetch"
    /\ t_idx <= Len(tickers)
    /\ \E pd \in FetchedPrices, docs \in FetchedEarnings :
           /\ upd_prices' = pd
           /\ upd_earnings' = docs
           /\ upc' = IF pd = <<>> \/ docs = <<>> THEN "next" ELSE "build"
    /\ UNCHANGED <<tickers, sector_map, t_idx, summary_doc, indexed, index_status, notUpdate>>

\* _search raises: nothing in update catches it
FetchFails ==
    /\ upc = "fetch"
    /\ t_idx <= Len(tickers)
    /\ upc' = "TransportError"
    /\ UNCHANGED <<tickers, sector_map, t_idx, upd_prices, upd_earnings, summary_doc,
                   indexed, index_status, notUpdate>>

\* doc = {} ... doc["sector"] = sector, on the day Today; the lookback of the
\* price growth raises for some series, the start of the trend window on
\* some days, and nothing in update catches it
BuildDoc ==
    /\ upc = "build"
    /\ IF \/ \E n \in Windows : find_price_years_ago(upd_prices, n).kind = "raise"
          \/ get_price_trend_5y(upd_prices, Today).kind = "raise"
       THEN summary_doc' = summary_doc /\ upc' = "ValueError"
       ELSE /\ summary_doc' = SummaryDoc(tickers[t_idx], upd_prices, upd_earnings, sector_map, Today)
            /\ upc' = "index"
    /\ UNCHANGED <<tickers, sector_map, t_idx, upd_prices, upd_earnings,
                   indexed, index_status, notUpdate>>

\* if doc: index_summary_doc(ticker, doc); _index prints the status, also
\* the one of a failed request, and returns
IndexDoc ==
    /\ upc = "index"
    /\ IF summary_doc # EmptyDoc
       THEN \E st \in {201, 200, 500} :
                /\ index_status' = st
                /\ indexed' = IF st = 500 THEN indexed ELSE Append(indexed, tickers[t_idx])
       ELSE UNCHANGED <<index_status, indexed>>
    /\ upc' = "next"
    /\ UNCHANGED <<tickers, sector_map, t_idx, upd_prices, upd_earnings, summary_doc, notUpdate>>

\* the for loop takes the next ticker; what the iteration held is dropped
NextTicker ==
    /\ upc = "next"
    /\ t_idx' = t_idx + 1
    /\ upd_prices' = <<>>
    /\ upd_earnings' = <<>>
    /\ summary_doc' = EmptyDoc
    /\ index_status' = 0
    /\ upc' = "fetch"
    /\ UNCHANGED <<tickers, sector_map, indexed, notUpdate>>

\* the for loop is through
UpdateReturn ==
    /\ upc = "fetch"
    /\ t_idx > Len(tickers)
    /\ upc' = "done"
    /\ UNCHANGED <<tickers, sector_map, t_idx, upd_prices, upd_earnings, summary_doc,
                   indexed, index_status, notUpdate>>

UpdateNext ==
    FetchTicker \/ FetchFails \/ BuildDoc \/ IndexDoc \/ NextTicker \/ UpdateReturn

(***************************************************************************)
(*        get_stock_data, the quarterly rows (src/backend/main.py)         *)
(*                                                                         *)
(* The earnings documents are those of eps_ttm_points, the fiscal years    *)
(* 1..NumYears standing for the calendar years after year_base.            *)
(***************************************************************************)

\* fiscal_year of the documents: the last year the loop visits is either
\* the last or the last but one of the documents
YearBases == {2023, 2024}
CalendarYear(y) == year_base + y

\* for year in range(2020, 2026)
RowYearsFrom == 2020
RowYearsBelow == 2026
RowYears == {y \in Years : RowYearsFrom <= CalendarYear(y) /\ CalendarYear(y) < RowYearsBelow}

\* find_existing_trading_day: the close of the period end, or of one of the
\* six days before; None when the store has no close there.
DayCloses == {"stored", "missing"}
find_existing_trading_day(closes, end) ==
    IF closes = "stored" THEN Some(ClosePrice(end)) ELSE None

\* One row of the result; ttm_eps and pe_ratio are set by the second loop.
Row(y, p, end, eps, price) ==
    [quarter |-> <<CalendarYear(y), p>>, date |-> end, eps |-> eps, price |-> price,
     ttm_eps |-> None, pe_ratio |-> None]

\* for q in ["Q1", "Q2", "Q3"]: a row for every record there is, its eps
\* being diluted_eps as stored, a number or None
RECURSIVE QuarterRows(_, _, _, _)
QuarterRows(qmap, closes, y, i) ==
    IF i > Len(QuarterPeriods) THEN <<>>
    ELSE LET p == QuarterPeriods[i]
             rest == QuarterRows(qmap, closes, y, i + 1)
         IN  IF <<y, p>> \notin DOMAIN qmap THEN rest
             ELSE <<Row(y, p, qmap[<<y, p>>].end_date, qmap[<<y, p>>].diluted_eps,
                        find_existing_trading_day(closes, qmap[<<y, p>>].end_date))>>
                  \o rest

\* a sum or a difference with a None operand raises TypeError
AllNumbers(eps_seq) == \A i \in 1..Len(eps_seq) : ~IsNone(eps_seq[i])
Values(eps_seq) == [i \in 1..Len(eps_seq) |-> Val(eps_seq[i])]

\* the rows of one year: Q1..Q3 as stored, and Q4 = round(FY - sum, 2) when
\* the year has FY and three quarter rows
YearRows(qmap, closes, y) ==
    LET q_rows == QuarterRows(qmap, closes, y, 1)
        q_data == EpsOf(q_rows)
    IN  IF <<y, "FY">> \in DOMAIN qmap /\ Len(q_data) = 3
        THEN LET fy == qmap[<<y, "FY">>]
             IN  IF IsNone(fy.diluted_eps) \/ ~AllNumbers(q_data)
                 THEN Raised("TypeError")
                 ELSE Returned(q_rows \o
                          <<Row(y, "Q4", fy.end_date,
                                Some(Round2(Val(fy.diluted_eps) - SumSeq(Values(q_data)))),
                                find_existing_trading_day(closes, fy.end_date))>>)
        ELSE Returned(q_rows)

\* ttm_eps and pe_ratio of row i (1-based): None for the first three rows
RowMetrics(rs, i) ==
    IF i >= 4
    THEN LET ttm == Round2(SumSeq(Values(EpsOf(SubSeq(rs, i - 3, i)))))
         IN  [rs[i] EXCEPT !.ttm_eps = Some(ttm),
                           !.pe_ratio = IF ~IsNone(rs[i].price) /\ ttm # 0
                                        THEN Some(Quotient(Val(rs[i].price), ttm))
                                        ELSE None]
    ELSE rs[i]

\* the first row, from the fourth on, whose four-row sum has a None operand
FirstBadSum(rs) ==
    {i \in 4..Len(rs) : ~AllNumbers(EpsOf(SubSeq(rs, i - 3, i)))
                        /\ \A j \in 4..(i - 1) : AllNumbers(EpsOf(SubSeq(rs, j - 3, j)))}

RowsIdle ==
    /\ stock_docs = <<>>
    /\ stock_quarters = EmptyMap
    /\ day_closes = "missing"
    /\ year_base = 2023
    /\ row_year = 0
    /\ rows = <<>>
    /\ gpc2 = "idle"

\* docs = fetch_earnings(resolved.upper())
RowsStart ==
    /\ \E sh \in Shapes : stock_docs = HitsFrom(sh, 1, 1)
    /\ stock_quarters = EmptyMap
    /\ day_closes \in DayCloses
    /\ year_base \in YearBases
    /\ row_year = 0
    /\ rows = <<>>
    /\ gpc2 = "collect"

\* quarters[key] = src for every document
CollectQuarters ==
    /\ gpc2 = "collect"
    /\ stock_quarters' = CollectByKey(stock_docs, EmptyMap)
    /\ row_year' = 1
    /\ gpc2' = "years"
    /\ UNCHANGED <<stock_docs, year_base, day_closes, rows, notRows>>

\* one pass of the loop over the years
RowsOfYear ==
    /\ gpc2 = "years"
    /\ row_year \in RowYears
    /\ LET yr == YearRows(stock_quarters, day_closes, row_year)
       IN  IF yr.kind = "raise"
           THEN /\ rows' = rows \o QuarterRows(stock_quarters, day_closes, row_year, 1)
                /\ row_year' = row_year
                /\ gpc2' = "TypeError"
           ELSE /\ rows' = rows \o yr.value
                /\ row_year' = row_year + 1
                /\ gpc2' = "years"
    /\ UNCHANGED <<stock_docs, year_base, stock_quarters, day_closes, notRows>>

\* a fiscal year outside range(2020, 2026) gets no pass
SkipYear ==
    /\ gpc2 = "years"
    /\ row_year \in Years \ RowYears
    /\ row_year' = row_year + 1
    /\ UNCHANGED <<stock_docs, year_base, stock_quarters, day_closes, rows, gpc2, notRows>>

\* the loop over the rows: ttm_eps and pe_ratio
AnnotateRows ==
    /\ gpc2 = "years"
    /\ row_year \notin Years
    /\ IF FirstBadSum(rows) # {}
       THEN /\ rows' = [i \in 1..Len(rows) |->
                           IF \A b \in FirstBadSum(rows) : i < b
                           THEN RowMetrics(rows, i) ELSE rows[i]]
            /\ gpc2' = "TypeError"
       ELSE /\ rows' = [i \in 1..Len(rows) |-> RowMetrics(rows, i)]
            /\ gpc2' = "done"
    /\ UNCHANGED <<stock_docs, year_base, stock_quarters, day_closes, row_year, notRows>>

RowsNext == CollectQuarters \/ RowsOfYear \/ SkipYear \/ AnnotateRows

(***************************************************************************)
(*   polygon_get (src/ingest/fetch_earnings.py, fetch_stock_metadata.py)   *)
(*                                                                         *)
(* The two copies differ in sleep_base only; the sleeps change no state.   *)
(***************************************************************************)

MaxRetries == 3
RetryCounts == 0..MaxRetries

\* What one requests.get can give: a response with its status code, or no
\* response at all (timeout, connection error: requests raises).
StatusCodes == {200, 204, 401, 404, 429, 500}
Replies == {Some(c) : c \in StatusCodes} \cup {None}
ReplyLists(n) == [1..n -> Replies]

\* resp.raise_for_status(): HTTPError for 400 <= status < 600, else nothing
raise_for_status(status) == 400 <= status /\ status < 600

\* the statement after the loop: resp is unbound when the loop never ran;
\* when raise_for_status returns, the function ends without a return value
AfterLoop(resp) ==
    IF IsNone(resp) THEN Raised("UnboundLocalError")
    ELSE IF raise_for_status(Val(resp)) THEN Raised("HTTPError")
    ELSE Returned(None)

PolygonIdle ==
    /\ max_retries = 0
    /\ replies = <<>>
    /\ attempt = 0
    /\ last_resp = None
    /\ pg_result = NotCalled
    /\ ppc = "idle"

PolygonStart ==
    /\ max_retries \in RetryCounts
    /\ replies \in ReplyLists(max_retries)
    /\ attempt = 0
    /\ last_resp = None
    /\ pg_result = NotCalled
    /\ ppc = "loop"

\* requests.get raises: nothing in polygon_get catches it
RequestFails ==
    /\ ppc = "loop"
    /\ attempt < max_retries
    /\ IsNone(replies[attempt + 1])
    /\ attempt' = attempt + 1
    /\ pg_result' = Raised("RequestException")
    /\ ppc' = "done"
    /\ UNCHANGED <<max_retries, replies, last_resp, notPolygon>>

\* one pass of "for attempt in range(max_retries)" with a response
Attempt ==
    /\ ppc = "loop"
    /\ attempt < max_retries
    /\ ~IsNone(replies[attempt + 1])
    /\ last_resp' = replies[attempt + 1]
    /\ attempt' = attempt + 1
    /\ IF Val(last_resp') = 200
       THEN pg_result' = Returned(last_resp') /\ ppc' = "done"
       ELSE IF Val(last_resp') = 401
       THEN pg_result' = Raised("SystemExit") /\ ppc' = "done"
       ELSE UNCHANGED <<pg_result, ppc>>
    /\ UNCHANGED <<max_retries, replies, notPolygon>>

\* the loop is exhausted: last_resp.raise_for_status()
GiveUp ==
    /\ ppc = "loop"
    /\ attempt = max_retries
    /\ pg_result' = AfterLoop(last_resp)
    /\ ppc' = "done"
    /\ UNCHANGED <<max_retries, replies, attempt, last_resp, notPolygon>>

PolygonNext == RequestFails \/ Attempt \/ GiveUp

(***************************************************************************)
(*   ttm_pe_ratio of update (src/ingest/update_stock_summary.py) against   *)
(*   the TTM series of eps_ttm_points (src/backend/main.py), one ticker    *)
(***************************************************************************)

\* The calendar date of end date n of the filing histories: quarter ends,
\* the last fiscal year being LastYear.
EndDay(n) ==
    LET y == LastYear - NumYears + ((n - 1) \div 4) + 1
        q == ((n - 1) % 4) + 1
    IN  <<y, 3 * q, IF q \in {1, 4} THEN 31 ELSE 30>>

\* earnings = fetch_earnings(ticker): the documents latest first
RECURSIVE Reversed(_)
Reversed(sq) == IF sq = <<>> THEN <<>> ELSE Append(Reversed(Tail(sq)), sq[1])
AsFetched(hs) == Reversed([i \in 1..Len(hs) |-> [hs[i] EXCEPT !.end_date = EndDay(hs[i].end_date)]])

\* ttm_eps = compute_ttm_eps(earnings); latest = get_latest_price(prices);
\* if ttm_eps and latest: doc["ttm_pe_ratio"] = round(latest / ttm_eps, 2)
TtmPeRatio(docs, latest) ==
    LET ttm_eps == compute_ttm_eps(docs)
    IN  IF Truthy(ttm_eps) /\ Truthy(latest)
        THEN Present(Quotient(Val(latest), Val(ttm_eps)))
        ELSE Absent

\* the quarter points and the TTM points eps_ttm_points builds from hits
QuarterPoints(hs) ==
    LET bk == CollectByKey(hs, EmptyMap) IN SortByDate(BuildQuarters(bk, YearsOf(bk)))
RECURSIVE RollFrom(_, _, _, _, _)
RollFrom(qs, i, w, t, o) ==
    IF i > Len(qs) THEN o
    ELSE LET r == RollOnce(w, t, o, qs[i])
         IN  RollFrom(qs, i + 1, r.window, r.total, r.out)
TtmPoints(hs) == RollFrom(QuarterPoints(hs), 1, <<>>, 0, <<>>)

LatestCloses == {Some(0), Some(ClosePrice(MaxDate))}

TtmPeIdle ==
    /\ pe_hits = <<>>
    /\ pe_latest = None
    /\ pe_ratio = Absent
    /\ pe_points = <<>>
    /\ tpc = "idle"

TtmPeStart ==
    /\ \E sh \in Shapes : pe_hits = HitsFrom(sh, 1, 1)
    /\ pe_hits # <<>>
    /\ pe_latest \in LatestCloses
    /\ pe_ratio = Absent
    /\ pe_points = <<>>
    /\ tpc = "update"

\* update, lines 356-359, for the ticker
WriteTtmPe ==
    /\ tpc = "update"
    /\ pe_ratio' = TtmPeRatio(AsFetched(pe_hits), pe_latest)
    /\ tpc' = "series"
    /\ UNCHANGED <<pe_hits, pe_latest, pe_points, notTtmPe>>

\* eps_ttm_points over the same records
BuildTtmSeries ==
    /\ tpc = "series"
    /\ pe_points' = TtmPoints(pe_hits)
    /\ tpc' = "done"
    /\ UNCHANGED <<pe_hits, pe_latest, pe_ratio, notTtmPe>>

TtmPeNext == WriteTtmPe \/ BuildTtmSeries

(***************************************************************************)
(*        get_price_trend_5y on its own (update_stock_summary.py)          *)
(***************************************************************************)

\* Days the store may hold a close for: quarter ends and days near them.
TrendDays ==
    {<<LastYear - 5, 3, 29>>, <<LastYear - 5, 6, 28>>, <<LastYear - 1, 3, 24>>,
     <<LastYear - 1, 3, 31>>, <<LastYear - 1, 6, 30>>, <<LastYear - 1, 9, 29>>,
     <<LastYear - 1, 12, 29>>, <<LastYear, 3, 28>>}
MaxTrendPrices == 3
TrendSeries ==
    LET sets == {ds \in SUBSET TrendDays : Cardinality(ds) <= MaxTrendPrices}
    IN  {SeriesOf(ds, 0, "ok") : ds \in sets}
        \cup UNION {{SeriesOf(ds, k, "null") : k \in 1..Cardinality(ds)} : ds \in sets}

\* datetime.today() of a run
RunDays == {<<LastYear, 2, 29>>, <<LastYear, 3, 1>>, <<LastYear, 4, 15>>, <<LastYear + 1, 1, 2>>}

TrendIdle ==
    /\ trend_prices = <<>>
    /\ trend_today = Today
    /\ trend = NotCalled
    /\ hpc = "idle"

TrendStart ==
    /\ trend_prices \in TrendSeries
    /\ trend_today \in RunDays
    /\ trend = NotCalled
    /\ hpc = "call"

\* doc["price_history"] = get_price_trend_5y(ticker)
SampleTrend ==
    /\ hpc = "call"
    /\ trend' = get_price_trend_5y(trend_prices, trend_today)
    /\ hpc' = "done"
    /\ UNCHANGED <<trend_prices, trend_today, notTrend>>

\* _search raises: nothing in get_price_trend_5y catches it
TrendSearchFails ==
    /\ hpc = "call"
    /\ trend' = Raised("TransportError")
    /\ hpc' = "done"
    /\ UNCHANGED <<trend_prices, trend_today, notTrend>>

TrendNext == SampleTrend \/ TrendSearchFails

(***************************************************************************)
(*   Runs of update over one store (src/ingest/update_stock_summary.py)    *)
(*                                                                         *)
(* stock_prices and earnings_data do not change between the runs;          *)
(* stock_summary holds what earlier runs left and what the runs write.     *)
(***************************************************************************)

MaxRuns == 2

\* What the store may hold for a ticker.
StoredPrices ==
    {SeriesOf(ds, 0, "ok") :
        ds \in {{}, {<<LastYear - 5, 3, 29>>, <<LastYear - 1, 3, 31>>}, {<<LastYear - 1, 12, 29>>}}}
StoredEarnings ==
    {[i \in 1..Len(docs) |-> FullSource(docs[i])] :
        docs \in {FilingsOf(ss, "str", 0, "ok") : ss \in {{}, {<<LastYear, "FY">>}}}}

\* A SummaryDoc an earlier run indexed, from data the store no longer holds.
EarlierDoc == [EmptyDoc EXCEPT !.price_history = Present(<<>>),
                               !.revenue_history = Present(<<>>),
                               !.sector = Present("Energy")]

TickersOf(ts) == {ts[i] : i \in 1..Len(ts)}
NothingSent(ts) == [t \in TickersOf(ts) |-> [doc |-> Absent, status |-> 0]]

\* the tickers of the list that cannot get a document on this day
RaisesFor(pd, day) ==
    \/ \E n \in Windows : find_price_years_ago(pd, n).kind = "raise"
    \/ get_price_trend_5y(pd, day).kind = "raise"

RerunIdle ==
    /\ run_tickers = <<>>
    /\ stock_prices = <<>>
    /\ earnings_data = <<>>
    /\ stock_summary = <<>>
    /\ run_no = 0
    /\ run_day = Today
    /\ run_idx = 0
    /\ sent = <<>>
    /\ xpc = "idle"

\* the first run starts
RerunStart ==
    /\ run_tickers \in TickerLists
    /\ stock_prices \in [TickersOf(run_tickers) -> StoredPrices]
    /\ earnings_data \in [TickersOf(run_tickers) -> StoredEarnings]
    /\ stock_summary \in [TickersOf(run_tickers) -> {Absent, Present(EarlierDoc)}]
    /\ run_no = 1
    /\ run_day \in RunDays
    /\ run_idx = 1
    /\ sent = <<NothingSent(run_tickers)>>
    /\ xpc = "loop"

\* if not prices or not earnings: continue
SkipTicker ==
    /\ xpc = "loop"
    /\ run_idx <= Len(run_tickers)
    /\ LET t == run_tickers[run_idx]
       IN  stock_prices[t] = <<>> \/ earnings_data[t] = <<>>
    /\ run_idx' = run_idx + 1
    /\ UNCHANGED <<run_tickers, stock_prices, earnings_data, stock_summary, run_no, run_day,
                   sent, xpc, notRerun>>

\* the lookback or the trend window raises: the run ends there
RunRaises ==
    /\ xpc = "loop"
    /\ run_idx <= Len(run_tickers)
    /\ LET t == run_tickers[run_idx]
       IN  /\ stock_prices[t] # <<>> /\ earnings_data[t] # <<>>
           /\ RaisesFor(stock_prices[t], run_day)
    /\ xpc' = "ValueError"
    /\ UNCHANGED <<run_tickers, stock_prices, earnings_data, stock_summary, run_no, run_day,
                   run_idx, sent, notRerun>>

\* doc = {...}; index_summary_doc(ticker, doc): the request replaces the
\* stored document (201 created, 200 updated), or fails and _index prints
\* the status
SummarizeTicker ==
    /\ xpc = "loop"
    /\ run_idx <= Len(run_tickers)
    /\ LET t == run_tickers[run_idx]
       IN  /\ stock_prices[t] # <<>> /\ earnings_data[t] # <<>>
           /\ ~RaisesFor(stock_prices[t], run_day)
           /\ LET d == SummaryDoc(t, stock_prices[t], earnings_data[t],
                                  CHOOSE m \in SectorMaps : TRUE, run_day)
              IN  \E ok \in BOOLEAN :
                      /\ sent' = [sent EXCEPT ![run_no][t] =
                                     [doc |-> Present(d),
                                      status |-> IF ~ok THEN 500
                                                 ELSE IF stock_summary[t] = Absent THEN 201
                                                 ELSE 200]]
                      /\ stock_summary' = IF ok THEN [stock_summary EXCEPT ![t] = Present(d)]
                                          ELSE stock_summary
    /\ run_idx' = run_idx + 1
    /\ UNCHANGED <<run_tickers, stock_prices, earnings_data, run_no, run_day, xpc, notRerun>>

\* the for loop is through
RunReturns ==
    /\ xpc = "loop"
    /\ run_idx > Len(run_tickers)
    /\ xpc' = "ran"
    /\ UNCHANGED <<run_tickers, stock_prices, earnings_data, stock_summary, run_no, run_day,
                   run_idx, sent, notRerun>>

\* update is run again, on the same day or a later one, with the same list
RunAgain ==
    /\ xpc = "ran"
    /\ run_no < MaxRuns
    /\ run_no' = run_no + 1
    /\ \E day \in RunDays : DateLeq(run_day, day) /\ run_day' = day
    /\ run_idx' = 1
    /\ sent' = Append(sent, NothingSent(run_tickers))
    /\ xpc' = "loop"
    /\ UNCHANGED <<run_tickers, stock_prices, earnings_data, stock_summary, notRerun>>

RerunNext == SkipTicker \/ RunRaises \/ SummarizeTicker \/ RunReturns \/ RunAgain

EpsInit == EpsStart /\ AlignIdle /\ ResolveIdle /\ SectorIdle /\ LookbackIdle /\ RevenueIdle /\ RatiosIdle /\ UpdateIdle /\ RowsIdle /\ PolygonIdle /\ TtmPeIdle /\ TrendIdle /\ RerunIdle
AlignInit == EpsIdle /\ AlignStart /\ ResolveIdle /\ SectorIdle /\ LookbackIdle /\ RevenueIdle /\ RatiosIdle /\ UpdateIdle /\ RowsIdle /\ PolygonIdle /\ TtmPeIdle /\ TrendIdle /\ RerunIdle
ResolveInit == EpsIdle /\ AlignIdle /\ ResolveStart /\ SectorIdle /\ LookbackIdle /\ RevenueIdle /\ RatiosIdle /\ UpdateIdle /\ RowsIdle /\ PolygonIdle /\ TtmPeIdle /\ TrendIdle /\ RerunIdle
SectorInit == EpsIdle /\ AlignIdle /\ ResolveIdle /\ SectorStart /\ LookbackIdle /\ RevenueIdle /\ RatiosIdle /\ UpdateIdle /\ RowsIdle /\ PolygonIdle /\ TtmPeIdle /\ TrendIdle /\ RerunIdle
LookbackInit == EpsIdle /\ AlignIdle /\ ResolveIdle /\ SectorIdle /\ LookbackStart /\ RevenueIdle /\ RatiosIdle /\ UpdateIdle /\ RowsIdle /\ PolygonIdle /\ TtmPeIdle /\ TrendIdle /\ RerunIdle
RevenueInit == EpsIdle /\ AlignIdle /\ ResolveIdle /\ SectorIdle /\ LookbackIdle /\ RevenueStart /\ RatiosIdle /\ UpdateIdle /\ RowsIdle /\ PolygonIdle /\ TtmPeIdle /\ TrendIdle /\ RerunIdle
RatiosInit == EpsIdle /\ AlignIdle /\ ResolveIdle /\ SectorIdle /\ LookbackIdle /\ RevenueIdle /\ RatiosStart /\ UpdateIdle /\ RowsIdle /\ PolygonIdle /\ TtmPeIdle /\ TrendIdle /\ RerunIdle
UpdateInit == EpsIdle /\ AlignIdle /\ ResolveIdle /\ SectorIdle /\ LookbackIdle /\ RevenueIdle /\ RatiosIdle /\ UpdateStart /\ RowsIdle /\ PolygonIdle /\ TtmPeIdle /\ TrendIdle /\ RerunIdle
RowsInit == EpsIdle /\ AlignIdle /\ ResolveIdle /\ SectorIdle /\ LookbackIdle /\ RevenueIdle /\ RatiosIdle /\ UpdateIdle /\ RowsStart /\ PolygonIdle /\ TtmPeIdle /\ TrendIdle /\ RerunIdle
PolygonInit == EpsIdle /\ AlignIdle /\ ResolveIdle /\ SectorIdle /\ LookbackIdle /\ RevenueIdle /\ RatiosIdle /\ UpdateIdle /\ RowsIdle /\ PolygonStart /\ TtmPeIdle /\ TrendIdle /\ RerunIdle
TtmPeInit == EpsIdle /\ AlignIdle /\ ResolveIdle /\ SectorIdle /\ LookbackIdle /\ RevenueIdle /\ RatiosIdle /\ UpdateIdle /\ RowsIdle /\ PolygonIdle /\ TtmPeStart /\ TrendIdle /\ RerunIdle
TrendInit == EpsIdle /\ AlignIdle /\ ResolveIdle /\ SectorIdle /\ LookbackIdle /\ RevenueIdle /\ RatiosIdle /\ UpdateIdle /\ RowsIdle /\ PolygonIdle /\ TtmPeIdle /\ TrendStart /\ RerunIdle
RerunInit == EpsIdle /\ AlignIdle /\ ResolveIdle /\ SectorIdle /\ LookbackIdle /\ RevenueIdle /\ RatiosIdle /\ UpdateIdle /\ RowsIdle /\ PolygonIdle /\ TtmPeIdle /\ TrendIdle /\ RerunStart

SpecEps == EpsInit /\ [][EpsNext]_vars
SpecAlign == AlignInit /\ [][AlignNext]_vars
SpecResolve == ResolveInit /\ [][ResolveNext]_vars
SpecSector == SectorInit /\ [][SectorNext]_vars
SpecLookback == LookbackInit /\ [][LookbackNext]_vars
SpecRevenue == RevenueInit /\ [][RevenueNext]_vars
SpecRatios == RatiosInit /\ [][RatiosNext]_vars
SpecUpdate == UpdateInit /\ [][UpdateNext]_vars
SpecRows == RowsInit /\ [][RowsNext]_vars
SpecPolygon == PolygonInit /\ [][PolygonNext]_vars
SpecTtmPe == TtmPeInit /\ [][TtmPeNext]_vars
SpecTrend == TrendInit /\ [][TrendNext]_vars
SpecRerun == RerunInit /\ [][RerunNext]_vars

(***************************************************************************)
(*                              Claims                                     *)
(***************************************************************************)

\* The hits of fiscal period p of year y, and the EPS the last of them reports
\* (diluted, else basic; None when there is no such hit or it has no EPS).
HitsOf(y, p) ==
    {i \in 1..Len(hits) : hits[i].fiscal_year = y /\ hits[i].fiscal_period = p}
LastHit(y, p) == hits[CHOOSE i \in HitsOf(y, p) : \A j \in HitsOf(y, p) : j <= i]
ReportedEps(y, p) ==
    IF HitsOf(y, p) = {} THEN None
    ELSE IF LastHit(y, p).diluted_eps # None THEN LastHit(y, p).diluted_eps
    ELSE LastHit(y, p).basic_eps
Q4Points(y) ==
    {i \in 1..Len(quarters) : quarters[i].fy = y /\ quarters[i].fp = "Q4"}
Built == epc \in {"roll", "done"}

WindowSum(k) ==
    quarters[k].eps + quarters[k + 1].eps + quarters[k + 2].eps + quarters[k + 3].eps

\* What C2 says of the loop apart from the value of eps_ttm: after qi quarter
\* points there are max(0, qi - 3) TTM points, the k-th dated at quarter point
\* k + 3; the window holds the last (at most 4) EPS values and the running
\* total is their sum.
RollingShape ==
    /\ Len(out) = Max(0, qi - 3)
    /\ \A k \in 1..Len(out) : out[k].date = quarters[k + 3].date
    /\ Len(window) = Min(qi, 4)
    /\ \A j \in 1..Len(window) : window[j] = quarters[qi - Len(window) + j].eps
    /\ total = SumSeq(window)
    /\ epc = "done" => qi = Len(quarters)

\* C2 as stated: ... and the eps_ttm of the k-th TTM point is the sum of the EPS
\* of quarter points k..k+3.
C2_TtmIsWindowSum ==
    Built => /\ RollingShape
             /\ \A k \in 1..Len(out) : out[k].eps_ttm = WindowSum(k)

\* C2 as amended: n sorted quarter points give exactly max(0, n - 3) TTM points,
\* none before the 4th; the k-th is dated at quarter point k + 3 and its eps_ttm
\* is the sum of the EPS of quarter points k..k+3 rounded to 2 decimals.
C2_TtmIsRoundedWindowSum ==
    Built => /\ RollingShape
             /\ \A k \in 1..Len(out) : out[k].eps_ttm = Round2(WindowSum(k))

\* C2 witness: a finished run over 8 quarter points with 5 TTM points, one of
\* them changed by the rounding.
C2_Witness ==
    /\ epc = "done"
    /\ Len(quarters) = 8
    /\ Len(out) = 5
    /\ \E k \in 1..Len(out) : out[k].eps_ttm # WindowSum(k)

\* The first price point dated on or after d (0: there is none).
FirstOnOrAfter(d) ==
    IF \E i \in 1..Len(prices) : prices[i].date >= d
    THEN CHOOSE i \in 1..Len(prices) :
             /\ prices[i].date >= d
             /\ \A j \in 1..Len(prices) : prices[j].date >= d => i <= j
    ELSE 0
\* TTM point k is the last TTM point whose price point is i.
LastOn(k, i) ==
    /\ FirstOnOrAfter(eps_points[k].date) = i
    /\ \A m \in (k + 1)..Len(eps_points) : FirstOnOrAfter(eps_points[m].date) # i
AlignEnded == apc \in {"returned", "ZeroDivisionError"}

\* C3: every TTM point dated d for which some price point has date >= d is
\* attached, eps and pe, to the first price point dated >= d and to no later
\* one; a TTM point dated after the last price date is attached to nothing.
C3_AttachedToFirstOnOrAfter ==
    AlignEnded =>
        \A k \in 1..Len(eps_points) :
            LET i == FirstOnOrAfter(eps_points[k].date)
            IN  IF i = 0
                THEN k <= Len(attached) => attached[k] = 0
                ELSE /\ k <= Len(attached)
                     /\ attached[k] = i
                     /\ LastOn(k, i) =>
                            /\ prices[i].eps = Some(eps_points[k].eps_ttm)
                            /\ prices[i].pe =
                                   Some(Quotient(prices[i].close, eps_points[k].eps_ttm))

\* C4: a TTM point with eps_ttm = 0 aligned onto a price point leaves eps = 0
\* and no pe on it, and the alignment completes without a division error.
C4_ZeroEpsOmitsPe ==
    /\ apc # "ZeroDivisionError"
    /\ AlignEnded =>
           \A k \in 1..Len(attached) :
               (eps_points[k].eps_ttm = 0 /\ attached[k] # 0 /\ LastOn(k, attached[k]))
                   => /\ prices[attached[k]].eps = Some(0)
                      /\ prices[attached[k]].pe = None

\* C5, the state part: a price point that is not the first price point on or
\* after the date of some TTM point carries neither eps nor pe; dates and closes
\* are those of the price documents; no more price points are annotated than
\* TTM points were taken.
OnlyMatchedAnnotated ==
    /\ \A i \in 1..Len(prices) :
           (\A k \in 1..Len(eps_points) : FirstOnOrAfter(eps_points[k].date) # i)
               => prices[i].eps = None /\ prices[i].pe = None
    /\ \A i \in 1..Len(prices) : prices[i].close = ClosePrice(prices[i].date)
    /\ \A i \in 1..(Len(prices) - 1) : prices[i].date < prices[i + 1].date
    /\ Cardinality({i \in 1..Len(prices) : prices[i].eps # None}) <= e_idx
\* C5, the step part: taking one TTM point changes at most one price point, and
\* of that point neither date nor close.
OneWritePerTtm ==
    /\ Len(prices') = Len(prices)
    /\ Cardinality({i \in 1..Len(prices) : prices'[i] # prices[i]}) <= 1
    /\ \A i \in 1..Len(prices) :
           prices'[i].date = prices[i].date /\ prices'[i].close = prices[i].close
    /\ \A i \in 1..Len(prices) :
           prices'[i] # prices[i] => i = FirstOnOrAfter(eps_points[e_idx + 1].date)

QueriesOf(kind) == {i \in 1..Len(queries) : queries[i].kind = kind}
Answered(kind) == \E i \in QueriesOf(kind) : ~queries[i].failed
IsTicker(tk) == result.kind = "ticker" /\ result.ticker = tk
IsHttp(status) == result.kind = "HTTPException" /\ result.status = status
\* The name hits whose name is the identifier, case-insensitively (the
\* identifier as the function takes it: without surrounding whitespace).
FullNameMatches ==
    {i \in 1..Len(name_hits) : Lower(name_hits[i].name) = Lower(Strip(identifier))}
ActiveHits == {i \in 1..Len(name_hits) : name_hits[i].active}

\* C6: whenever the exact ticker lookup (identifier upper-cased) returns a hit,
\* that hit's ticker is returned and the name search is never invoked; the name
\* search is invoked only after an empty exact-ticker result.
C6_ExactHitSkipsNameSearch ==
    /\ \A i \in QueriesOf("term") : i = 1 /\ queries[i].key = Upper(Strip(identifier))
    /\ exact # <<>> =>
           /\ IsTicker(exact[1].ticker)
           /\ rpc = "done"
           /\ QueriesOf("name") = {}
    /\ \A i \in QueriesOf("name") :
           /\ i = 2
           /\ queries[1].kind = "term" /\ ~queries[1].failed /\ queries[1].nhits = 0
           /\ exact = <<>>

\* C6 witness: the exact lookup hit, its ticker was returned, and the only
\* query issued is the term query.
C6_Witness ==
    /\ rpc = "done"
    /\ exact # <<>>
    /\ IsTicker(Upper(identifier))
    /\ Len(queries) = 1

\* C7: when exactly one candidate of the name search has the identifier as its
\* name, case-insensitively, its ticker is returned, whatever the other
\* candidates and whatever the active flags.
C7_UniqueFullNameWins ==
    (rpc = "done" /\ Answered("name") /\ Cardinality(FullNameMatches) = 1)
        => \A i \in FullNameMatches : IsTicker(name_hits[i].ticker)

\* C7 witness: the unique full-name match is inactive, another candidate is the
\* only active one, and the full-name match was returned.
C7_Witness ==
    /\ rpc = "done" /\ Answered("name")
    /\ Len(name_hits) >= 2
    /\ \E i \in FullNameMatches :
           /\ FullNameMatches = {i}
           /\ ~name_hits[i].active
           /\ \E j \in ActiveHits : ActiveHits = {j} /\ j # i
           /\ IsTicker(name_hits[i].ticker)

\* C8: the Ambiguous outcome (409) arises only from a candidate set of more than
\* one entry; a candidate set of exactly one entry never gives Ambiguous.
C8_AmbiguousNeedsTwoCandidates == IsHttp(409) => Len(name_hits) > 1

\* C9: two or more candidates, none the unique full name match, and not exactly
\* one active: the outcome is Ambiguous, no ticker is returned, and the error
\* lists every candidate of the name search as a ticker+name pair.
C9_AmbiguousListsAllCandidates ==
    (/\ rpc = "done" /\ Answered("name")
     /\ Len(name_hits) >= 2
     /\ Cardinality(FullNameMatches) # 1
     /\ Cardinality(ActiveHits) # 1)
        => /\ IsHttp(409)
           /\ Len(result.options) = Len(name_hits)
           /\ \A i \in 1..Len(name_hits) :
                  result.options[i] = <<name_hits[i].ticker, name_hits[i].name>>

\* C9 witness: two active companies, neither named as the identifier: 409 with
\* both listed.
C9_Witness ==
    /\ rpc = "done" /\ Answered("name")
    /\ Len(name_hits) = 2
    /\ ActiveHits = {1, 2}
    /\ FullNameMatches = {}
    /\ IsHttp(409)
    /\ Len(result.options) = 2

C11_ThreeTerminalOutcomes ==
    (rpc = "done" /\ \A i \in 1..Len(queries) : ~queries[i].failed)
        => \/ result.kind = "ticker"
           \/ IsHttp(409)
           \/ IsHttp(404)

\* The argument read as a four-digit code, when it is a string of four digits.
IsFourDigit == 
    /\ ~IsNone(sic_code)
    /\ Len(Val(sic_code)) = 4
    /\ \A k \in 1..4 : IsDigit(Val(sic_code)[k])
FourDigitCode ==
    LET c == Val(sic_code)
    IN  1000 * DigitValue(c[1]) + 100 * DigitValue(c[2])
        + 10 * DigitValue(c[3]) + DigitValue(c[4])

\* The override ranges and their labels.
OverrideTable ==
    { <<3570, 3579, "Technology">>, <<3660, 3699, "Technology">>,
      <<7370, 7379, "Technology">>, <<2830, 2839, "HealthCare">>,
      <<3840, 3851, "HealthCare">>, <<8000, 8099, "HealthCare">>,
      <<4910, 4999, "Utilities">>, <<1310, 1389, "Energy">>,
      <<2900, 2999, "Energy">>, <<6500, 6799, "Real Estate">> }

\* C16: every override is checked before every broad range: a four-digit code
\* inside an override range gets that override's label, never the label of
\* the broad range that also contains it; 7372 gives Technology, 2834
\* HealthCare, 4911 Utilities.
C16_OverridesWin ==
    (spc = "done" /\ IsFourDigit) =>
        /\ \A r \in OverrideTable :
               (r[1] <= FourDigitCode /\ FourDigitCode <= r[2]) => sector = Some(r[3])
        /\ FourDigitCode = 7372 => sector = Some("Technology")
        /\ FourDigitCode = 2834 => sector = Some("HealthCare")
        /\ FourDigitCode = 4911 => sector = Some("Utilities")

\* C16 witness: 7372, inside the override 7370-7379 and inside the broad
\* range 7000-7999 (Industrial), has been classified Technology.
C16_Witness ==
    /\ spc = "done"
    /\ sic_code = Some(<<"7", "3", "7", "2">>)
    /\ sic = Some(7372)
    /\ BroadRanges(7372) = Some("Industrial")
    /\ sector = Some("Technology")

\* C17: every code from 0100 to 9729 gets a sector, and a code gets none only
\* when it lies outside 0100..9729 or cannot be parsed.
C17_CodeSpaceCovered ==
    spc = "done" =>
        /\ (IsFourDigit /\ 100 <= FourDigitCode /\ FourDigitCode <= 9729)
               => ~IsNone(sector)
        /\ IsNone(sector) =>
               \/ IsNone(sic)
               \/ Val(sic) < 100
               \/ Val(sic) > 9729

\* The day N years before the last price point, and the price points that old.
LastDate == price_data[Len(price_data)][1]
YearsBefore == <<LastDate[1] - years, LastDate[2], LastDate[3]>>
OldEnough == {i \in 1..Len(price_data) : DateLeq(price_data[i][1], YearsBefore)}

\* C13: on an ascending price series find_price_years_ago returns the close of
\* the latest price point dated on or before (last date minus N years), and
\* None when no price point is that old or the series is empty.
C13_LatestCloseAtOrBeforeCutoff ==
    fpc = "done" =>
        /\ past.kind = "return"
        /\ IF price_data = <<>> \/ OldEnough = {}
           THEN past.value = None
           ELSE \E i \in OldEnough :
                    /\ \A j \in OldEnough : j <= i
                    /\ past.value = price_data[i][2]

\* C19: for every non-empty ascending price series of valid dates, a latest
\* date of February 29 included, and every window N of 1, 3, 5,
\* find_price_years_ago returns (a price or None) and does not raise.
C19_LookbackNeverRaises ==
    (fpc = "done" /\ price_data # <<>>) => past.kind # "raise"

\* The records with a numeric revenue, the last of them in (fiscal year,
\* period) order, and the records of the same period N years before it that
\* report a positive revenue.
WithRevenueIn(docs) == {i \in 1..Len(docs) : ~IsNone(docs[i].revenues)}
FiscalOrdIn(docs, i) ==
    10 * docs[i].fiscal_year.value + period_order(PeriodUpper(docs[i].fiscal_period))
LastWithRevenueIn(docs) ==
    CHOOSE i \in WithRevenueIn(docs) :
        \A j \in WithRevenueIn(docs) : FiscalOrdIn(docs, j) <= FiscalOrdIn(docs, i)
SamePeriodBeforeIn(docs, r, n) ==
    {j \in WithRevenueIn(docs) :
        /\ docs[j].fiscal_year.value = docs[r].fiscal_year.value - n
        /\ PeriodUpper(docs[j].fiscal_period) = PeriodUpper(docs[r].fiscal_period)
        /\ Val(docs[j].revenues) > 0}
WithRevenue == WithRevenueIn(earnings)
LastWithRevenue == LastWithRevenueIn(earnings)
SamePeriodBefore(r) == SamePeriodBeforeIn(earnings, r, rev_years)

\* C14: with R the last record in (fiscal_year, Q1<Q2<Q3<Q4<FY) order that
\* has a numeric revenue: if a record of the same period and of fiscal year
\* R.fiscal_year - N has a positive revenue, find_revenue_growth_cagr returns
\* CAGR(that revenue, R.revenue, N); otherwise it returns None.  Fiscal years
\* are integers, as in the data model.
C14_RevenueGrowthOfLastRecord ==
    (gpc = "done" /\ \A i \in 1..Len(earnings) : earnings[i].fiscal_year.type = "int")
        => IF WithRevenue # {} /\ SamePeriodBefore(LastWithRevenue) # {}
           THEN \E j \in SamePeriodBefore(LastWithRevenue) :
                    growth.value = calc_cagr(Val(earnings[j].revenues),
                                             Val(earnings[LastWithRevenue].revenues),
                                             rev_years)
           ELSE growth.value = None

\* What the latest earnings document holds.
Numeric(f) == ~IsNone(latest_earnings[f])
Positive(f) == Numeric(f) /\ Val(latest_earnings[f]) > 0
\* The share count: the diluted one when the document has a non-zero one,
\* else the basic one.
SharesField ==
    IF Numeric("diluted_average_shares") /\ Val(latest_earnings["diluted_average_shares"]) # 0
    THEN "diluted_average_shares"
    ELSE "basic_average_shares"
HasRatio(key) == ~IsNone(ratios.value[key])

\* C15: compute_financial_ratios returns, and each ratio is in the result
\* exactly when its own inputs are valid: roa with a numeric net_income and
\* assets > 0, roe with a numeric net_income and equity > 0, debt_to_equity
\* with numeric liabilities and equity > 0, market_cap with a non-zero latest
\* price and shares > 0 (diluted preferred over basic); no input of one ratio
\* decides another ratio.
C15_EachRatioOnItsOwnInputs ==
    cpc = "done" =>
        /\ ratios.kind = "return"
        /\ HasRatio("roa") <=> (Numeric("net_income") /\ Positive("assets"))
        /\ HasRatio("roe") <=> (Numeric("net_income") /\ Positive("equity"))
        /\ HasRatio("debt_to_equity") <=> (Numeric("liabilities") /\ Positive("equity"))
        /\ HasRatio("market_cap") <=>
               /\ ~IsNone(latest_price) /\ Val(latest_price) # 0
               /\ Positive(SharesField)
        /\ HasRatio("market_cap") =>
               Val(ratios.value["market_cap"])
                   = Val(latest_price) * Val(latest_earnings[SharesField])

\* C15 witness: a document without assets and without diluted shares: roa is
\* left out, and roe, debt_to_equity and market_cap (on the basic shares) are
\* all there.
C15_Witness ==
    /\ cpc = "done"
    /\ ~Numeric("assets")
    /\ ~Numeric("diluted_average_shares")
    /\ ~HasRatio("roa")
    /\ HasRatio("roe")
    /\ HasRatio("debt_to_equity")
    /\ HasRatio("market_cap")

\* The summary document of the current ticker has been built.
DocBuilt == upc \in {"index", "next"} /\ summary_doc # EmptyDoc
\* The start and the end of the price window N of the current ticker, and of
\* its revenue window: is the CAGR defined?
PriceStart(n) == find_price_years_ago(upd_prices, n).value
PriceEnd == get_latest_price(upd_prices)
PriceCagrDefined(n) ==
    /\ ~IsNone(PriceStart(n)) /\ Val(PriceStart(n)) > 0
    /\ ~IsNone(PriceEnd) /\ Val(PriceEnd) > 0
RevenueCagrDefined(n) ==
    /\ WithRevenueIn(upd_earnings) # {}
    /\ Val(upd_earnings[LastWithRevenueIn(upd_earnings)].revenues) > 0
    /\ SamePeriodBeforeIn(upd_earnings, LastWithRevenueIn(upd_earnings), n) # {}
\* A key of the document is there and holds a number.
HoldsNumber(entry) == entry # Absent /\ ~IsNone(entry[1])

\* C12: in the SummaryDoc built by update(), for every window N of 1, 3, 5,
\* price_growth_Ny and revenue_growth_Ny are present only when the CAGR is
\* defined (start > 0, end > 0) and then hold a number; when start or end is
\* non-positive or missing the key is absent, not zero and not null.
C12_GrowthKeysOnlyWhenDefined ==
    DocBuilt =>
        \A n \in Windows :
            /\ summary_doc.price_growth[n] # Absent
                   => PriceCagrDefined(n) /\ HoldsNumber(summary_doc.price_growth[n])
            /\ ~PriceCagrDefined(n) => summary_doc.price_growth[n] = Absent
            /\ summary_doc.revenue_growth[n] # Absent
                   => RevenueCagrDefined(n) /\ HoldsNumber(summary_doc.revenue_growth[n])
            /\ ~RevenueCagrDefined(n) => summary_doc.revenue_growth[n] = Absent

\* The run has ended: by returning, or by an exception of a metric.
RunEnded == upc \in {"done", "ValueError"}

\* C18: in a batch run, a failure to compute a metric for one ticker (for any
\* data, any latest price date) does not stop the run: when the run has
\* ended, the loop has taken every ticker of the list, so that no ticker
\* after a failing one is left without its fetch and its SummaryDoc.
C18_LaterTickersStillProcessed ==
    RunEnded => \A i \in 1..Len(tickers) : i <= t_idx


\* The fiscal periods of the documents whose diluted_eps is a number.
WithEps == {<<d.fiscal_year, d.fiscal_period>> : d \in {stock_docs[i] : i \in 1..Len(stock_docs)}
                                                 \cap {d \in {stock_docs[i] : i \in 1..Len(stock_docs)} : ~IsNone(d.diluted_eps)}}

\* C20: get_stock_data never raises on a record whose EPS is null: such a
\* record gives no row, and once the rows are complete every Q1-Q3 record
\* that has its EPS, of a year the loop visits, has its row.
C20_NullEpsSkippedInRows ==
    /\ gpc2 # "TypeError"
    /\ \A i \in 1..Len(rows) : ~IsNone(rows[i].eps)
    /\ gpc2 = "done" =>
           \A k \in WithEps :
               (k[1] \in RowYears /\ k[2] \in {"Q1", "Q2", "Q3"}) =>
                   \E i \in 1..Len(rows) : rows[i].quarter = <<CalendarYear(k[1]), k[2]>>


\* The (fiscal year, period) pairs the documents of the ticker hold.
StoredPeriods == {<<stock_docs[i].fiscal_year, stock_docs[i].fiscal_period>> : i \in 1..Len(stock_docs)}

RowOrd(r) == CHOOSE n \in 1..4 : r.quarter[2] = <<"Q1", "Q2", "Q3", "Q4">>[n]

\* C21: the rows get_stock_data returns hold one row for every stored Q1, Q2
\* and Q3 record and one derived Q4 row for every fiscal year with Q1, Q2, Q3
\* and FY, whatever the fiscal year, ordered by fiscal year and then quarter.
C21_RowForEveryStoredQuarter ==
    gpc2 = "done" =>
        /\ \A k \in StoredPeriods :
               k[2] \in {"Q1", "Q2", "Q3"} =>
                   \E i \in 1..Len(rows) : rows[i].quarter = <<CalendarYear(k[1]), k[2]>>
        /\ \A y \in Years :
               ({<<y, "Q1">>, <<y, "Q2">>, <<y, "Q3">>, <<y, "FY">>} \subseteq StoredPeriods) =>
                   \E i \in 1..Len(rows) : rows[i].quarter = <<CalendarYear(y), "Q4">>
        /\ \A i, j \in 1..Len(rows) :
               i < j => \/ rows[i].quarter[1] < rows[j].quarter[1]
                        \/ /\ rows[i].quarter[1] = rows[j].quarter[1]
                           /\ RowOrd(rows[i]) < RowOrd(rows[j])


\* C30: polygon_get sends at most max_retries requests and ends either by
\* returning a response of status 200 or by raising: it never returns another
\* response or None, it sends nothing after a 200 or a 401 and goes on after
\* every other status.
C30_ReturnsOkOrRaises ==
    /\ attempt <= max_retries
    /\ ppc = "done" =>
           /\ pg_result.kind \in {"return", "raise"}
           /\ pg_result.kind = "return" => pg_result.value = Some(200)
           /\ \A i \in 1..(attempt - 1) : replies[i] \notin {None, Some(200), Some(401)}
    /\ ppc = "loop" => \A i \in 1..attempt : replies[i] \notin {None, Some(200), Some(401)}


\* C25: once the quarter points are built, a fiscal year with a Q4 record
\* that has an EPS has exactly one Q4 quarter point, holding that reported
\* EPS; a Q4 point is derived from FY only for a year without a Q4 record.
C25_ReportedQ4Wins ==
    Built =>
        \A y \in Years :
            ReportedEps(y, "Q4") # None =>
                /\ Cardinality(Q4Points(y)) = 1
                /\ \A i \in Q4Points(y) : quarters[i].eps = Val(ReportedEps(y, "Q4"))


\* The place of a quarter point in the order the points are appended: by
\* fiscal year, then Q1, Q2, Q3, Q4.
AppendedBefore(a, b) == a.fy < b.fy \/ (a.fy = b.fy /\ PIdx(a.fp) < PIdx(b.fp))

\* C26: the quarter points hold at most one point per (fiscal year, period);
\* of several records with one (fiscal year, period) only the last in input
\* order gives the point; the points are in ascending date order and points
\* of one date are in the order they were appended.
C26_OnePointPerPeriodSortedStable ==
    Built =>
        /\ \A i, j \in 1..Len(quarters) :
               i < j => <<quarters[i].fy, quarters[i].fp>> # <<quarters[j].fy, quarters[j].fp>>
        /\ \A i \in 1..Len(quarters) :
               quarters[i].fp \in {"Q1", "Q2", "Q3"} =>
                   /\ quarters[i].eps = Val(ReportedEps(quarters[i].fy, quarters[i].fp))
                   /\ quarters[i].date = LastHit(quarters[i].fy, quarters[i].fp).end_date
        /\ \A i, j \in 1..Len(quarters) :
               i < j => /\ quarters[i].date <= quarters[j].date
                        /\ quarters[i].date = quarters[j].date =>
                               AppendedBefore(quarters[i], quarters[j])

\* C26 witness: a fiscal period was filed twice, with different end dates; the
\* later record gave the point, the sort moved it behind a later fiscal
\* quarter and left it before the quarter of its own date.
C26_Witness ==
    /\ epc = "done"
    /\ \E y \in Years, p \in {"Q1", "Q2", "Q3"} :
           /\ Cardinality(HitsOf(y, p)) = 2
           /\ \E i \in 1..Len(quarters) :
                  /\ quarters[i].fy = y /\ quarters[i].fp = p
                  /\ quarters[i].eps = RefiledEps(y, p)
                  /\ \E j \in 1..(i - 1) : AppendedBefore(quarters[i], quarters[j])
                  /\ \E j \in (i + 1)..Len(quarters) :
                         /\ quarters[j].date = quarters[i].date
                         /\ AppendedBefore(quarters[i], quarters[j])


\* The number of a fiscal quarter, counting on from year to year.
QuarterNo(q) == 4 * q.fy + PIdx(q.fp)

\* C27: every TTM point is the sum of four consecutive fiscal quarters: the
\* four quarter points in the window when a point is emitted follow each
\* other with no quarter missing between them.
C27_WindowIsFourConsecutiveQuarters ==
    Built =>
        \A i \in 4..qi :
            \A k \in 1..3 : QuarterNo(quarters[i - 3 + k]) = QuarterNo(quarters[i - 3]) + k


\* The TTM points dated on or before the date of price point i.
TtmOnOrBefore(i) == {k \in 1..Len(eps_points) : eps_points[k].date <= prices[i].date}
LatestTtmOnOrBefore(i) == CHOOSE k \in TtmOnOrBefore(i) : \A o \in TtmOnOrBefore(i) : o <= k

\* C28: when prices_last_days_with_eps_pe has returned, a price point that
\* carries an eps carries the eps_ttm of the latest TTM point dated on or
\* before its own date; of several TTM points written to one price point the
\* last one stays.
C28_EpsIsLatestTtmOnOrBefore ==
    apc = "returned" =>
        \A i \in 1..Len(prices) :
            ~IsNone(prices[i].eps) =>
                /\ TtmOnOrBefore(i) # {}
                /\ prices[i].eps = Some(eps_points[LatestTtmOnOrBefore(i)].eps_ttm)

\* C28 witness: two TTM points older than the first price were both written
\* to it, the second one stayed; a later price carries a later TTM point.
C28_Witness ==
    /\ apc = "returned"
    /\ Len(prices) >= 2 /\ Len(eps_points) = 3
    /\ attached = <<1, 1, 2>>
    /\ eps_points[2].date < prices[1].date
    /\ prices[1].eps = Some(eps_points[2].eps_ttm)
    /\ prices[2].eps = Some(eps_points[3].eps_ttm)


\* C22: the ttm_pe_ratio update writes is the latest close divided by the TTM
\* EPS of the reconstructed quarterly series, the last TTM point
\* eps_ttm_points gives for the same records, and the key is absent when
\* the series has fewer than four quarter points.
C22_TtmPeFromReconstructedQuarters ==
    tpc = "done" =>
        /\ Len(QuarterPoints(pe_hits)) < 4 => pe_ratio = Absent
        /\ (pe_points # <<>> /\ Truthy(pe_latest) /\ pe_points[Len(pe_points)].eps_ttm # 0) =>
               pe_ratio = Present(Quotient(Val(pe_latest), pe_points[Len(pe_points)].eps_ttm))


\* The start of the window of a run on trend_today; the last seven days of a
\* quarter-end month.
WindowStart == <<trend_today[1] - 5, trend_today[2], trend_today[3]>>
MonthLength(m) == IF m \in {6, 9} THEN 30 ELSE 31
LastDaysClose(y, m) ==
    LET found == {i \in 1..Len(trend_prices) :
                     /\ DateLeq(WindowStart, trend_prices[i][1])
                     /\ DateLeq(trend_prices[i][1], trend_today)
                     /\ ~IsNone(trend_prices[i][2])
                     /\ trend_prices[i][1][1] = y /\ trend_prices[i][1][2] = m
                     /\ trend_prices[i][1][3] >= MonthLength(m) - 6}
    IN  IF found = {} THEN None
        ELSE trend_prices[CHOOSE i \in found : \A j \in found : j <= i][2]
RECURSIVE QuarterEndSamples(_, _)
QuarterEndSamples(y, q) ==
    IF y > trend_today[1] THEN <<>>
    ELSE LET c == LastDaysClose(y, 3 * q)
             rest == IF q = 4 THEN QuarterEndSamples(y + 1, 1) ELSE QuarterEndSamples(y, q + 1)
         IN  IF IsNone(c) THEN rest ELSE <<Val(c)>> \o rest

\* C29: the list get_price_trend_5y builds holds, in chronological order,
\* one sample for each of March, June, September and December of each year
\* of the window that has a close on one of its last days, none left out.
C29_EveryQuarterEndMonthSampled ==
    (hpc = "done" /\ trend.kind = "return") =>
        trend.value = QuarterEndSamples(WindowStart[1], 1)


\* C23: a run of update over the same stored prices, earnings and sectors
\* and the same ticker list writes, for every ticker, the SummaryDoc the run
\* before it wrote.
C23_SecondRunWritesSameDocs ==
    \A r \in 2..Len(sent) :
        \A t \in TickersOf(run_tickers) :
            (sent[r - 1][t].doc # Absent /\ sent[r][t].doc # Absent) =>
                sent[r][t].doc = sent[r - 1][t].doc

\* C24: when a run of update has gone through its list, the stored
\* SummaryDoc of every ticker of the list whose index request did not fail is
\* the document this run computed for it; nothing an earlier run stored
\* survives, also for a ticker without prices or without earnings.
C24_NothingOfEarlierRunsSurvives ==
    xpc = "ran" =>
        \A t \in TickersOf(run_tickers) :
            sent[run_no][t].status # 500 => stock_summary[t] = sent[run_no][t].doc

=============================================================================
